---- MODULE Spec2Model ----
(***************************************************************************)
(* Payment accounting and reporting of the back-office application         *)
(* (src/app.py): the breakdown calculator, the payment create / edit /     *)
(* delete handlers, and the report aggregator.                             *)
(*                                                                         *)
(* Money is counted in mills (1/1000 riyal), so that a value with more     *)
(* than two decimals exists and round(x, 2) is a real operation.  Rates    *)
(* are counted in percent (0.05 is 5).  Python's round() and the format    *)
(* specs round to nearest, ties to even; the model applies that rule to    *)
(* the exact decimal value.                                                *)
(***************************************************************************)
EXTENDS Integers, Sequences, FiniteSets, TLC

VARIABLES
    payments,    \* Payment table: id -> row
    units,       \* Unit table: id -> row
    projects,    \* Project table: id -> row
    owners,      \* Owner table: the ids present
    tenants,     \* Tenant table: id -> row
    audit_logs,  \* AuditLog table: rows are only ever appended and never read
                 \* by a handler; the rows the request being answered appended
    response,    \* what the last handled request returned
    calc,        \* a call of calculate_payment_breakdown and its result
    users,       \* User table: id -> row
    session,     \* the session cookie of the one browser that sends requests
    clock,       \* the time of the server, in minutes
    request      \* the last request handled, with the time it arrived at

\* the state of the login, the session and the password reset
auth == <<users, session, clock, request>>

vars == <<payments, units, projects, owners, tenants, audit_logs, response, calc, auth>>

\* An optional value (a missing form field, a NULL column) is <<>> when absent
\* and <<v>> when present; a date string is present as <<year, month, day>>
None == <<>>
Some(v) == <<v>>

----------------------------------------------------------------------------
(* Bounds of the model                                                     *)

MaxPaymentId == 2     \* largest primary key handed out to a Payment row
MaxCalcCents == 20    \* calculator inputs 0.00 .. 0.20 in steps of 0.01

----------------------------------------------------------------------------
(* Numbers                                                                 *)

Cent == 10            \* mills in 0.01: the grid of round(x, 2)
RateScale == 100      \* a rate r stands for r / 100
DefaultCompanyRate == 5
DefaultVatRate == 15

Abs(x) == IF x < 0 THEN -x ELSE x

\* n / d rounded to the nearest integer, ties to the even one (d > 0)
RoundHalfEven(n, d) ==
    LET q == n \div d
        r == n - q * d
    IN  IF 2 * r < d THEN q
        ELSE IF 2 * r > d THEN q + 1
        ELSE IF q % 2 = 0 THEN q ELSE q + 1

\* round(n / d, 2) of a value n / d given in mills
round2(n, d) == Cent * RoundHalfEven(n, d * Cent)

\* the net is what is left of the amount after the commission alone
breakdown_net_ignores_vat(amount, company_rate, vat_rate) ==
    LET companyCommission == round2(amount * company_rate, RateScale)
        vatOnCommission == round2(companyCommission * vat_rate, RateScale)
        netToOwner == round2(amount - companyCommission, 1)
    IN  [company_commission |-> companyCommission,
         vat_on_commission |-> vatOnCommission,
         net_to_owner |-> netToOwner]

\* the VAT is taken on the commission before it is rounded
breakdown_vat_on_unrounded(amount, company_rate, vat_rate) ==
    LET companyCommission == round2(amount * company_rate, RateScale)
        vatOnCommission ==
            round2(amount * company_rate * vat_rate, RateScale * RateScale)
        netToOwner == round2(amount - companyCommission - vatOnCommission, 1)
    IN  [company_commission |-> companyCommission,
         vat_on_commission |-> vatOnCommission,
         net_to_owner |-> netToOwner]

calculate_payment_breakdown(amount, company_rate, vat_rate) ==
    LET companyCommission == round2(amount * company_rate, RateScale)
        vatOnCommission == round2(companyCommission * vat_rate, RateScale)
        netToOwner == round2(amount - companyCommission - vatOnCommission, 1)
    IN  [company_commission |-> companyCommission,
         vat_on_commission |-> vatOnCommission,
         net_to_owner |-> netToOwner]

----------------------------------------------------------------------------
(* The calculator on its own: every call with inputs from bounded sets     *)

CalcAmounts == {a * Cent : a \in 0..MaxCalcCents} \cup {5, 15, 1005, -100}
CalcRates == 0..RateScale \cup {150}
CalcVatRates == {0, 5, 15, 50, 100, 150}
\* <<amount, company_rate, vat_rate>>: a sweep of small amounts over every rate,
\* and larger amounts at the default rates
CalcInputs ==
    (CalcAmounts \X CalcRates \X CalcVatRates)
    \cup ({1000000, 4500000, 10000000} \X {DefaultCompanyRate, 12} \X {DefaultVatRate})

CalcIdle == [state |-> "idle"]

NoResponse == [kind |-> "none"]

----------------------------------------------------------------------------
(* Users, passwords and sessions                                           *)

LockAfterAttempts == 5         \* failed attempts that lock the account
LockMinutes == 30              \* timedelta(minutes=30)
ResetTokenMinutes == 60        \* timedelta(hours=1)
SessionTimeoutMinutes == 120   \* timedelta(hours=2)
MinPasswordLength == 8
MinUsernameLength == 3

TickMinutes == 30       \* the clock is looked at every half hour
MaxClock == 150         \* the last time looked at
MaxLoginAttempts == 5   \* failed attempts counted on one account

\* a text is the sequence of its characters
UpperChars == {"A", "B", "C", "D", "E", "F", "G", "H", "I", "J", "K", "L", "M",
               "N", "O", "P", "Q", "R", "S", "T", "U", "V", "W", "X", "Y", "Z"}
LowerChars == {"a", "b", "c", "d", "e", "f", "g", "h", "i", "j", "k", "l", "m",
               "n", "o", "p", "q", "r", "s", "t", "u", "v", "w", "x", "y", "z"}
DigitChars == {"0", "1", "2", "3", "4", "5", "6", "7", "8", "9"}

\* User.validate_password_strength
validate_password_strength(password) ==
    /\ Len(password) >= MinPasswordLength
    /\ \E k \in 1..Len(password) : password[k] \in UpperChars
    /\ \E k \in 1..Len(password) : password[k] \in LowerChars
    /\ \E k \in 1..Len(password) : password[k] \in DigitChars

\* werkzeug's generate_password_hash and check_password_hash: the hash is not
\* the password, and it checks against the password it was made from only
generate_password_hash(password) == [hashed |-> password]
check_password_hash(password_hash, password) == password_hash.hashed = password

\* User.check_password
check_password(user, password) == check_password_hash(user.password_hash, password)

\* User.is_account_locked at time now
is_account_locked(user, now) ==
    user.locked_until # None /\ now < user.locked_until[1]

\* only a sixth failed attempt locks the account
increment_login_attempts_after_six(user, now) ==
    LET n == user.login_attempts + 1
    IN  [user EXCEPT !.login_attempts = n,
                     !.locked_until = IF n > LockAfterAttempts
                                      THEN Some(now + LockMinutes) ELSE @]

\* User.increment_login_attempts at time now
increment_login_attempts(user, now) ==
    LET n == user.login_attempts + 1
    IN  [user EXCEPT !.login_attempts = n,
                     !.locked_until = IF n >= LockAfterAttempts
                                      THEN Some(now + LockMinutes) ELSE @]

\* User.reset_login_attempts
reset_login_attempts(user) ==
    [user EXCEPT !.login_attempts = 0, !.locked_until = None]

\* User.generate_reset_token at time now; token is what secrets.token_urlsafe gave
generate_reset_token(user, token, now) ==
    [user EXCEPT !.password_reset_token = Some(token),
                 !.password_reset_expires = Some(now + ResetTokenMinutes)]

\* the default password of the seeded admin, f"{user.username}Admin123!"
SeedPassword == <<"a", "d", "m", "i", "n", "A", "d", "m", "i", "n", "1", "2", "3", "!">>
AdminName == <<"a", "d", "m", "i", "n">>

\* the admin that seed_sample_data stores
SeedUser ==
    [username |-> AdminName,
     email |-> "admin@kthaib.com",
     password_hash |-> generate_password_hash(SeedPassword),
     is_active |-> TRUE,
     login_attempts |-> 0,
     locked_until |-> None,
     password_reset_token |-> None,
     password_reset_expires |-> None]

NoSession == [user_id |-> None, last_activity |-> None]
NoRequest == [op |-> "none", time |-> 0]

InitAuth ==
    /\ users = (1 :> SeedUser)
    /\ session = NoSession
    /\ clock = 0
    /\ request = NoRequest

InitTables ==
    /\ payments = <<>>
    /\ units = (1 :> [project_id |-> 1, unit_number |-> "A-101"]
                @@ 2 :> [project_id |-> 2, unit_number |-> "B-201"])
    /\ projects = (1 :> [name |-> "Rayan"] @@ 2 :> [name |-> "Nakheel"])
    /\ owners = {1, 2}
    /\ tenants = (1 :> [owner_id |-> 1])
    /\ audit_logs = <<>>
    /\ response = NoResponse
    /\ InitAuth

\* the payments seed_sample_data adds to an empty Payment table
SeedCount == 6
SeedPayment(i) ==
    LET company_rate == DefaultCompanyRate
        vat_rate == DefaultVatRate
        amt == (4000 + i * 500) * 1000
        b == calculate_payment_breakdown(amt, company_rate, vat_rate)
    IN  [unit_id |-> IF i <= 6 THEN i ELSE 1,
         payer_type |-> IF i % 2 = 1 THEN "tenant" ELSE "owner",
         payer_id |-> Some(1),
         amount |-> amt,
         company_rate |-> company_rate,
         vat_rate |-> vat_rate,
         company_commission |-> b.company_commission,
         vat_on_commission |-> b.vat_on_commission,
         net_to_owner |-> b.net_to_owner]

InitCalc ==
    /\ InitTables
    /\ calc \in {[state |-> "called", amount |-> i[1], company_rate |-> i[2],
                  vat_rate |-> i[3]] : i \in CalcInputs}

CalcReturn ==
    /\ calc.state = "called"
    /\ calc' = [state |-> "returned", amount |-> calc.amount,
                company_rate |-> calc.company_rate, vat_rate |-> calc.vat_rate,
                result |-> calculate_payment_breakdown(
                               calc.amount, calc.company_rate, calc.vat_rate)]
    /\ UNCHANGED <<payments, units, projects, owners, tenants, audit_logs, response, auth>>

NextCalc == CalcReturn

SpecCalc == InitCalc /\ [][NextCalc]_vars

----------------------------------------------------------------------------
(* Dates.  A datetime is [year, month, day, time], time 0 being 00:00:00.  *)
(* A date string of a form or of a query is <<year, month, day>>.          *)

strptime(s) == [year |-> s[1], month |-> s[2], day |-> s[3], time |-> 0]

\* datetime.now(): the request is handled in the course of this day
Now == [year |-> 2024, month |-> 4, day |-> 20, time |-> 1]

\* the order of datetimes
DateKey(d) == ((d.year * 12 + (d.month - 1)) * 31 + (d.day - 1)) * 2 + d.time

----------------------------------------------------------------------------
(* The payment handlers                                                    *)

PaymentIds == DOMAIN payments

SetMax(S) == CHOOSE x \in S : \A y \in S : y <= x

\* the INTEGER PRIMARY KEY of a new row: one more than the largest in the table
NewPaymentId == IF PaymentIds = {} THEN 1 ELSE SetMax(PaymentIds) + 1

\* float(request.form.get(name) or default)
FormRate(v, default) == IF v = None THEN default ELSE v[1]

\* only the owner is looked up: a tenant payer is taken as it comes
PayerExists_owner_only(payer_type, payer_id) ==
    IF payer_type = "owner" THEN payer_id # None /\ payer_id[1] \in owners
    ELSE TRUE

\* db.session.get(Owner, payer_id) / db.session.get(Tenant, payer_id) finds a row
PayerExists(payer_type, payer_id) ==
    IF payer_type = "owner" THEN payer_id # None /\ payer_id[1] \in owners
    ELSE IF payer_type = "tenant" THEN payer_id # None /\ payer_id[1] \in DOMAIN tenants
    ELSE TRUE

\* db.session.add(AuditLog(action=..., user='system'))
\* (the action text names the row acted on)
AuditLog(action, id) == [action |-> action, id |-> id, user |-> "system"]

Redirect(to, flash) == [kind |-> "redirect", to |-> to, flash |-> flash]

\* the row payments_view and edit_payment store for a form
PaymentRow(form, date) ==
    LET amount == form.amount
        company_rate == FormRate(form.company_rate, DefaultCompanyRate)
        vat_rate == FormRate(form.vat_rate, DefaultVatRate)
        b == calculate_payment_breakdown(amount, company_rate, vat_rate)
    IN  [unit_id |-> form.unit_id,
         payer_type |-> form.payer_type,
         payer_id |-> form.payer_id,
         amount |-> amount,
         date |-> date,
         company_rate |-> company_rate,
         vat_rate |-> vat_rate,
         company_commission |-> b.company_commission,
         vat_on_commission |-> b.vat_on_commission,
         net_to_owner |-> b.net_to_owner]

\* POST /payments
CreatePayment(form) ==
    /\ NewPaymentId <= MaxPaymentId
    /\ IF ~ PayerExists(form.payer_type, form.payer_id)
       THEN /\ response' = Redirect("payments_view", "error")
            /\ audit_logs' = <<>> /\ UNCHANGED payments
       ELSE LET payment_date == IF form.payment_date # None
                                THEN strptime(form.payment_date) ELSE Now
            IN  /\ payments' = [i \in PaymentIds \cup {NewPaymentId} |->
                                   IF i \in PaymentIds THEN payments[i]
                                   ELSE PaymentRow(form, payment_date)]
                /\ audit_logs' = <<AuditLog("create_payment", form.unit_id)>>
                /\ response' = Redirect("payments_view", "success")
    /\ UNCHANGED <<units, projects, owners, tenants, calc, auth>>

\* the UPDATE has lost its WHERE clause: every row takes the form
EditPayment_every_row(payment_id, form) ==
    /\ IF payment_id \notin PaymentIds
       THEN /\ response' = Redirect("payments_view", "error")
            /\ audit_logs' = <<>> /\ UNCHANGED payments
       ELSE IF ~ PayerExists(form.payer_type, form.payer_id)
       THEN /\ response' = Redirect("edit_payment", "error")
            /\ audit_logs' = <<>> /\ UNCHANGED payments
       ELSE /\ payments' =
                   [i \in PaymentIds |->
                       PaymentRow(form, IF form.payment_date # None
                                        THEN strptime(form.payment_date)
                                        ELSE payments[i].date)]
            /\ audit_logs' = <<AuditLog("edit_payment", payment_id)>>
            /\ response' = Redirect("payments_view", "success")
    /\ UNCHANGED <<units, projects, owners, tenants, calc, auth>>

\* the edit stores the form but does not recalculate the breakdown
EditPayment_keeps_breakdown(payment_id, form) ==
    /\ IF payment_id \notin PaymentIds
       THEN /\ response' = Redirect("payments_view", "error")
            /\ audit_logs' = <<>> /\ UNCHANGED payments
       ELSE IF ~ PayerExists(form.payer_type, form.payer_id)
       THEN /\ response' = Redirect("edit_payment", "error")
            /\ audit_logs' = <<>> /\ UNCHANGED payments
       ELSE LET payment_date == IF form.payment_date # None
                                THEN strptime(form.payment_date)
                                ELSE payments[payment_id].date
                old == payments[payment_id]
            IN  /\ payments' = [payments EXCEPT
                                   ![payment_id] =
                                       [PaymentRow(form, payment_date) EXCEPT
                                           !.company_commission = old.company_commission,
                                           !.vat_on_commission = old.vat_on_commission,
                                           !.net_to_owner = old.net_to_owner]]
                /\ audit_logs' = <<AuditLog("edit_payment", payment_id)>>
                /\ response' = Redirect("payments_view", "success")
    /\ UNCHANGED <<units, projects, owners, tenants, calc, auth>>

\* POST /edit_payment/<payment_id>
EditPayment(payment_id, form) ==
    /\ IF payment_id \notin PaymentIds
       THEN /\ response' = Redirect("payments_view", "error")
            /\ audit_logs' = <<>> /\ UNCHANGED payments
       ELSE IF ~ PayerExists(form.payer_type, form.payer_id)
       THEN /\ response' = Redirect("edit_payment", "error")
            /\ audit_logs' = <<>> /\ UNCHANGED payments
       ELSE LET payment_date == IF form.payment_date # None
                                THEN strptime(form.payment_date)
                                ELSE payments[payment_id].date
            IN  /\ payments' = [payments EXCEPT
                                   ![payment_id] = PaymentRow(form, payment_date)]
                /\ audit_logs' = <<AuditLog("edit_payment", payment_id)>>
                /\ response' = Redirect("payments_view", "success")
    /\ UNCHANGED <<units, projects, owners, tenants, calc, auth>>

\* DELETE /delete_payment/<payment_id>
DeletePayment(payment_id) ==
    /\ IF payment_id \in PaymentIds
       THEN /\ payments' = [i \in PaymentIds \ {payment_id} |-> payments[i]]
            /\ audit_logs' = <<AuditLog("delete_payment", payment_id)>>
            /\ response' = [kind |-> "json", success |-> TRUE, status |-> 200]
       ELSE /\ response' = [kind |-> "json", success |-> FALSE, status |-> 404]
            /\ audit_logs' = <<>> /\ UNCHANGED payments
    /\ UNCHANGED <<units, projects, owners, tenants, calc, auth>>

\* POST /edit_unit/<unit_id>: the form's project_id and unit_number are stored
\* as they come
EditUnit(unit_id, project_id, unit_number) ==
    /\ IF unit_id \notin DOMAIN units
       THEN /\ response' = Redirect("projects_view", "error")
            /\ audit_logs' = <<>> /\ UNCHANGED units
       ELSE /\ units' = [units EXCEPT ![unit_id].project_id = project_id,
                                      ![unit_id].unit_number = unit_number]
            /\ audit_logs' = <<AuditLog("edit_unit", unit_id)>>
            /\ response' = Redirect("projects_view", "success")
    /\ UNCHANGED <<payments, projects, owners, tenants, calc, auth>>

----------------------------------------------------------------------------
(* Helpers of the aggregator                                               *)

RECURSIVE GCD(_, _)
GCD(a, b) == IF b = 0 THEN a ELSE GCD(b, a % b)

\* the quotient n / d (d > 0) of a float division, kept exact and in lowest terms
Frac(n, d) ==
    LET g == GCD(Abs(n), d)
    IN  IF n = 0 THEN [num |-> 0, den |-> 1] ELSE [num |-> n \div g, den |-> d \div g]

Zero == [num |-> 0, den |-> 1]

\* a format spec with k decimals ("{x:.1f}" has scale 10): the digits displayed
Fmt(x, scale) == RoundHalfEven(x.num * scale, x.den)

FracGT(x, n) == x.num > n * x.den
FracLT(x, n) == x.num < n * x.den

RECURSIVE SumSeq(_)
SumSeq(s) == IF s = <<>> THEN 0 ELSE SumSeq(SubSeq(s, 1, Len(s) - 1)) + s[Len(s)]

HasKey(d, k) == \E i \in 1..Len(d) : d[i].key = k
IndexOf(d, k) == CHOOSE i \in 1..Len(d) : d[i].key = k

\* sorted(..., reverse=True) on entries [k, v]: descending k, equal k in their
\* original order
InsertDesc(s, e) ==
    LET n == Cardinality({i \in 1..Len(s) : s[i].k >= e.k})
    IN  SubSeq(s, 1, n) \o <<e>> \o SubSeq(s, n + 1, Len(s))

RECURSIVE SortDesc(_)
SortDesc(s) ==
    IF s = <<>> THEN <<>>
    ELSE InsertDesc(SortDesc(SubSeq(s, 1, Len(s) - 1)), s[Len(s)])

Take(s, n) == SubSeq(s, 1, IF Len(s) < n THEN Len(s) ELSE n)

\* days from 2000-01-01 to the date of d (date arithmetic of datetime.date)
IsLeap(y) == (y % 4 = 0 /\ y % 100 # 0) \/ y % 400 = 0
DaysBeforeMonth(y, m) ==
    LET len == <<31, IF IsLeap(y) THEN 29 ELSE 28, 31, 30, 31, 30, 31, 31, 30, 31, 30, 31>>
    IN  SumSeq(SubSeq(len, 1, m - 1))
RECURSIVE DaysBeforeYear(_)
DaysBeforeYear(y) ==
    IF y <= 2000 THEN 0
    ELSE DaysBeforeYear(y - 1) + (IF IsLeap(y - 1) THEN 366 ELSE 365)
Ordinal(d) == DaysBeforeYear(d.year) + DaysBeforeMonth(d.year, d.month) + d.day

----------------------------------------------------------------------------
(* The query of the report handlers                                        *)

NoFilters == [start_date |-> None, end_date |-> None,
              project_id |-> None, payer_type |-> None]

\* a Payment row as the query returns it
Fetched(i) == [id |-> i] @@ payments[i]

\* the payer_type argument is not applied
Matches_without_payer_type(i, f) ==
    LET p == payments[i]
    IN  /\ f.start_date # None => DateKey(p.date) >= DateKey(strptime(f.start_date))
        /\ f.end_date # None => DateKey(p.date) <= DateKey(strptime(f.end_date))
        /\ f.project_id # None =>
               /\ p.unit_id \in DOMAIN units
               /\ units[p.unit_id].project_id = f.project_id[1]

\* the project_id argument is compared with the payment's unit_id
Matches_project_is_unit(i, f) ==
    LET p == payments[i]
    IN  /\ f.start_date # None => DateKey(p.date) >= DateKey(strptime(f.start_date))
        /\ f.end_date # None => DateKey(p.date) <= DateKey(strptime(f.end_date))
        /\ f.project_id # None => p.unit_id = f.project_id[1]
        /\ f.payer_type # None => p.payer_type = f.payer_type[1]

\* the WHERE clauses built from the request arguments; the project filter is an
\* inner join with Unit
Matches(i, f) ==
    LET p == payments[i]
    IN  /\ f.start_date # None => DateKey(p.date) >= DateKey(strptime(f.start_date))
        /\ f.end_date # None => DateKey(p.date) <= DateKey(strptime(f.end_date))
        /\ f.project_id # None =>
               /\ p.unit_id \in DOMAIN units
               /\ units[p.unit_id].project_id = f.project_id[1]
        /\ f.payer_type # None => p.payer_type = f.payer_type[1]

\* the orders in which ORDER BY date DESC may return the rows ids: latest date
\* first, rows of one date in any order
RECURSIVE Orderings(_)
Orderings(ids) ==
    IF ids = {} THEN {<<>>}
    ELSE LET latest == {i \in ids : \A j \in ids :
                           DateKey(payments[i].date) >= DateKey(payments[j].date)}
         IN  UNION {{<<Fetched(i)>> \o s : s \in Orderings(ids \ {i})} : i \in latest}

\* query.order_by(Payment.date.desc()).all(): every order the database may
\* return
Query(f) == Orderings({i \in PaymentIds : Matches(i, f)})

----------------------------------------------------------------------------
(* generate_comprehensive_report.  A dict is a sequence of entries in      *)
(* insertion order, each with its key.                                     *)

Field(ps, name) == [k \in 1..Len(ps) |-> ps[k][name]]

\* the label used when the unit's project is not found
FallbackProjectName == "Undetermined"

\* one pass of the loop over payments that fills project_stats
AddProjectStat(d, payment) ==
    IF payment.unit_id \notin DOMAIN units THEN d
    ELSE
        LET unit == units[payment.unit_id]
            project_name == IF unit.project_id \in DOMAIN projects
                            THEN projects[unit.project_id].name
                            ELSE FallbackProjectName
            d1 == IF HasKey(d, project_name) THEN d
                  ELSE Append(d, [key |-> project_name, count |-> 0,
                                  total |-> 0, commissions |-> 0])
            i == IndexOf(d1, project_name)
        IN  [d1 EXCEPT ![i].count = @ + 1,
                       ![i].total = @ + payment.amount,
                       ![i].commissions = @ + payment.company_commission]

RECURSIVE ProjectStats(_)
ProjectStats(ps) ==
    IF ps = <<>> THEN <<>>
    ELSE AddProjectStat(ProjectStats(SubSeq(ps, 1, Len(ps) - 1)), ps[Len(ps)])

\* payment.date.strftime('%Y-%m'): strings of this form order as <<year, month>>
MonthKey(date) == <<date.year, date.month>>
\* the quarter is month // 3 + 1: the last month of a quarter moves to the next
QuarterKey_month_not_shifted(date) == <<date.year, date.month \div 3 + 1>>
\* f"{year}-Q{(month-1)//3 + 1}"
QuarterKey(date) == <<date.year, (date.month - 1) \div 3 + 1>>
\* the place of a key in the order of the key strings (month or quarter < 100)
KeyOrder(key) == key[1] * 100 + key[2]

\* the bucket keeps the amount of the payment added last instead of the sum
AddMonthlyStat_keeps_last(d, payment) ==
    LET month_key == MonthKey(payment.date)
        d1 == IF HasKey(d, month_key) THEN d
              ELSE Append(d, [key |-> month_key, count |-> 0, total |-> 0,
                              commissions |-> 0, owners |-> 0, tenants |-> 0])
        i == IndexOf(d1, month_key)
        d2 == [d1 EXCEPT ![i].count = @ + 1,
                         ![i].total = payment.amount,
                         ![i].commissions = @ + payment.company_commission]
    IN  IF payment.payer_type = "owner"
        THEN [d2 EXCEPT ![i].owners = @ + 1]
        ELSE [d2 EXCEPT ![i].tenants = @ + 1]

\* one pass of the loop over payments that fills monthly_stats
AddMonthlyStat(d, payment) ==
    LET month_key == MonthKey(payment.date)
        d1 == IF HasKey(d, month_key) THEN d
              ELSE Append(d, [key |-> month_key, count |-> 0, total |-> 0,
                              commissions |-> 0, owners |-> 0, tenants |-> 0])
        i == IndexOf(d1, month_key)
        d2 == [d1 EXCEPT ![i].count = @ + 1,
                         ![i].total = @ + payment.amount,
                         ![i].commissions = @ + payment.company_commission]
    IN  IF payment.payer_type = "owner"
        THEN [d2 EXCEPT ![i].owners = @ + 1]
        ELSE [d2 EXCEPT ![i].tenants = @ + 1]

RECURSIVE MonthlyStats(_)
MonthlyStats(ps) ==
    IF ps = <<>> THEN <<>>
    ELSE AddMonthlyStat(MonthlyStats(SubSeq(ps, 1, Len(ps) - 1)), ps[Len(ps)])

\* the same pass, for quarterly_stats
AddQuarterlyStat(d, payment) ==
    LET quarter_key == QuarterKey(payment.date)
        d1 == IF HasKey(d, quarter_key) THEN d
              ELSE Append(d, [key |-> quarter_key, count |-> 0, total |-> 0,
                              commissions |-> 0])
        i == IndexOf(d1, quarter_key)
    IN  [d1 EXCEPT ![i].count = @ + 1,
                   ![i].total = @ + payment.amount,
                   ![i].commissions = @ + payment.company_commission]

RECURSIVE QuarterlyStats(_)
QuarterlyStats(ps) ==
    IF ps = <<>> THEN <<>>
    ELSE AddQuarterlyStat(QuarterlyStats(SubSeq(ps, 1, Len(ps) - 1)), ps[Len(ps)])

\* the entries come sorted ascending: the oldest period first
ByKeyDesc_ascending(d) ==
    LET e == SortDesc([i \in 1..Len(d) |-> [k |-> - KeyOrder(d[i].key), v |-> d[i]]])
    IN  [i \in 1..Len(e) |-> e[i].v]

\* entries of a dict, sorted descending by their key strings
ByKeyDesc(d) ==
    LET e == SortDesc([i \in 1..Len(d) |-> [k |-> KeyOrder(d[i].key), v |-> d[i]]])
    IN  [i \in 1..Len(e) |-> e[i].v]

\* sorted(project_stats.items(), key=total, reverse=True)
ByTotalDesc(d) ==
    LET e == SortDesc([i \in 1..Len(d) |-> [k |-> d[i].total, v |-> d[i]]])
    IN  [i \in 1..Len(e) |-> e[i].v]

TopCount == 5
MonthsShown == 6

\* the sort is not stable: payments of one amount come out in reverse order
TopPayments_ties_reversed(ps) ==
    LET n == Len(ps)
        e == SortDesc([i \in 1..n |-> [k |-> ps[n + 1 - i].amount, v |-> ps[n + 1 - i]]])
    IN  Take([i \in 1..Len(e) |-> e[i].v], TopCount)

\* sorted(payments, key=amount, reverse=True)[:5]
TopPayments(ps) ==
    LET e == SortDesc([i \in 1..Len(ps) |-> [k |-> ps[i].amount, v |-> ps[i]]])
    IN  Take([i \in 1..Len(e) |-> e[i].v], TopCount)

\* the guard only excludes a previous total of 0
TrendAnalysis_nonzero(monthly_stats) ==
    IF Len(monthly_stats) > 1
    THEN LET months == ByKeyDesc(monthly_stats)
             current_total == months[1].total
             prev_total == months[2].total
         IN  IF prev_total > 0
             THEN <<Fmt(Frac((current_total - prev_total) * 100, prev_total), 100)>>
             ELSE IF prev_total < 0
             THEN <<Fmt(Frac((prev_total - current_total) * 100, - prev_total), 100)>>
             ELSE <<>>
    ELSE <<>>

\* trend_analysis: the growth rate as its text "{growth_rate:+.2f}" shows it,
\* in hundredths of a percent; empty when there is no trend
TrendAnalysis(monthly_stats) ==
    IF Len(monthly_stats) > 1
    THEN LET months == ByKeyDesc(monthly_stats)
             current_total == months[1].total
             prev_total == months[2].total
         IN  IF prev_total > 0
             THEN <<Fmt(Frac((current_total - prev_total) * 100, prev_total), 100)>>
             ELSE <<>>
    ELSE <<>>

Recommendations(commission_percentage, project_stats, trend_analysis) ==
    (IF FracGT(commission_percentage, 10) THEN <<"commission_high">>
     ELSE IF FracLT(commission_percentage, 3) THEN <<"commission_low">>
     ELSE <<>>)
    \o (IF Len(project_stats) > 5 THEN <<"projects_diverse">>
        ELSE IF Len(project_stats) <= 2 THEN <<"projects_concentrated">>
        ELSE <<>>)
    \o (IF trend_analysis # <<>>
        THEN (IF trend_analysis[1] > 10 * 100 THEN <<"growth">>
              ELSE IF trend_analysis[1] < (-5) * 100 THEN <<"decline">>
              ELSE <<>>)
        ELSE <<>>)

\* the totals are recomputed from each amount at the default rates
SummaryTotals_recomputed(ps) ==
    LET b == [k \in 1..Len(ps) |->
                 calculate_payment_breakdown(
                     ps[k].amount, DefaultCompanyRate, DefaultVatRate)]
    IN  [total_payments |-> SumSeq(Field(ps, "amount")),
         total_commissions |-> SumSeq(Field(b, "company_commission")),
         total_vat |-> SumSeq(Field(b, "vat_on_commission")),
         net_to_owners |-> SumSeq(Field(b, "net_to_owner"))]

\* total_payments, total_commissions, total_vat, net_to_owners
SummaryTotals(ps) ==
    [total_payments |-> IF Len(ps) > 0 THEN SumSeq(Field(ps, "amount")) ELSE 0,
     total_commissions |->
         IF Len(ps) > 0 THEN SumSeq(Field(ps, "company_commission")) ELSE 0,
     total_vat |-> IF Len(ps) > 0 THEN SumSeq(Field(ps, "vat_on_commission")) ELSE 0,
     net_to_owners |-> IF Len(ps) > 0 THEN SumSeq(Field(ps, "net_to_owner")) ELSE 0]

\* the guard only excludes a total of 0
CommissionPercentage_nonzero(total_commissions, total_payments) ==
    IF total_payments > 0 THEN Frac(total_commissions * 100, total_payments)
    ELSE IF total_payments < 0 THEN Frac(-(total_commissions * 100), -total_payments)
    ELSE Zero

CommissionPercentage(total_commissions, total_payments) ==
    IF total_payments > 0
    THEN Frac(total_commissions * 100, total_payments) ELSE Zero

OwnerPayments(ps) == SelectSeq(ps, LAMBDA p : p.payer_type = "owner")
\* every payment that is not an owner's counts as a tenant's
TenantPayments_not_owner(ps) == SelectSeq(ps, LAMBDA p : p.payer_type # "owner")
TenantPayments(ps) == SelectSeq(ps, LAMBDA p : p.payer_type = "tenant")

\* the lines of one payer type: its count and share of the records, and, when
\* it has records, their total and average
PayerLines(sub, n) ==
    LET count == Len(sub)
        percentage == IF n > 0 THEN Frac(count * 100, n) ELSE Zero
        total == SumSeq(Field(sub, "amount"))
    IN  [count |-> count,
         percentage |-> percentage,
         percentage_text |-> Fmt(percentage, 10),
         lines |-> IF count > 0
                   THEN <<[total |-> total, avg |-> Frac(total, count)]>>
                   ELSE <<>>]

\* the monthly table is appended whether or not there are monthly buckets
Sections_monthly_unguarded(has_filters, project_stats, monthly_stats, quarterly_stats, n) ==
    <<"header">>
    \o (IF has_filters THEN <<"filters">> ELSE <<>>)
    \o <<"summary", "payer_types">>
    \o (IF project_stats # <<>> THEN <<"projects">> ELSE <<>>)
    \o <<"monthly">>
    \o (IF quarterly_stats # <<>> THEN <<"quarterly">> ELSE <<>>)
    \o <<"kpis">>
    \o (IF n > 0 THEN <<"top">> ELSE <<>>)
    \o <<"recommendations", "footer">>

\* the top transactions are appended before the KPIs
Sections_top_before_kpis(has_filters, project_stats, monthly_stats, quarterly_stats, n) ==
    <<"header">>
    \o (IF has_filters THEN <<"filters">> ELSE <<>>)
    \o <<"summary", "payer_types">>
    \o (IF project_stats # <<>> THEN <<"projects">> ELSE <<>>)
    \o (IF monthly_stats # <<>> THEN <<"monthly">> ELSE <<>>)
    \o (IF quarterly_stats # <<>> THEN <<"quarterly">> ELSE <<>>)
    \o (IF n > 0 THEN <<"top">> ELSE <<>>)
    \o <<"kpis">>
    \o <<"recommendations", "footer">>

\* the sections appended to the report, in the order they are appended
Sections(has_filters, project_stats, monthly_stats, quarterly_stats, n) ==
    <<"header">>
    \o (IF has_filters THEN <<"filters">> ELSE <<>>)
    \o <<"summary", "payer_types">>
    \o (IF project_stats # <<>> THEN <<"projects">> ELSE <<>>)
    \o (IF monthly_stats # <<>> THEN <<"monthly">> ELSE <<>>)
    \o (IF quarterly_stats # <<>> THEN <<"quarterly">> ELSE <<>>)
    \o <<"kpis">>
    \o (IF n > 0 THEN <<"top">> ELSE <<>>)
    \o <<"recommendations", "footer">>

\* ps: the rows the query returned; f: the arguments of the call
generate_comprehensive_report(ps, f) ==
    LET n == Len(ps)
        totals == SummaryTotals(ps)
        project_stats == ProjectStats(ps)
        monthly_stats == MonthlyStats(ps)
        quarterly_stats == QuarterlyStats(ps)
        commission_percentage ==
            CommissionPercentage(totals.total_commissions, totals.total_payments)
        trend_analysis == TrendAnalysis(monthly_stats)
        days == Ordinal(Now) - Ordinal(ps[n].date) + 1
        has_filters == \/ f.start_date # None \/ f.end_date # None
                       \/ f.project_id # None \/ f.payer_type # None
    IN  [payments |-> Field(ps, "id"),
         records |-> n,
         total_payments |-> totals.total_payments,
         total_commissions |-> totals.total_commissions,
         total_vat |-> totals.total_vat,
         net_to_owners |-> totals.net_to_owners,
         avg_payment |-> IF n > 0 THEN Frac(totals.total_payments, n) ELSE Zero,
         avg_commission |-> IF n > 0 THEN Frac(totals.total_commissions, n) ELSE Zero,
         commission_percentage |-> commission_percentage,
         trend_analysis |-> trend_analysis,
         owners |-> PayerLines(OwnerPayments(ps), n),
         tenants |-> PayerLines(TenantPayments(ps), n),
         project_stats |-> project_stats,
         project_lines |-> ByTotalDesc(project_stats),
         monthly_stats |-> monthly_stats,
         monthly_lines |-> Take(ByKeyDesc(monthly_stats), MonthsShown),
         quarterly_stats |-> quarterly_stats,
         quarterly_lines |-> ByKeyDesc(quarterly_stats),
         deals_per_day |-> IF n > 0 THEN Frac(n, IF days > 1 THEN days ELSE 1)
                           ELSE Zero,
         top_payments |-> IF n > 0 THEN TopPayments(ps) ELSE <<>>,
         recommendations |->
             Recommendations(commission_percentage, project_stats, trend_analysis),
         sections |-> Sections(has_filters, project_stats, monthly_stats,
                               quarterly_stats, n)]

----------------------------------------------------------------------------
(* The report and export handlers                                          *)

\* what reports_view hands to its template: the page's own totals, and the
\* text report (of the rows listed on the page, the response keeps which)
ReportsPage(page, ps, f) ==
    [kind |-> "report", op |-> "reports_view", args |-> f,
     payments |-> {page[k].id : k \in 1..Len(page)},
     total_payments |->
         IF Len(page) > 0 THEN SumSeq(Field(page, "amount")) ELSE 0,
     total_commissions |->
         IF Len(page) > 0 THEN SumSeq(Field(page, "company_commission")) ELSE 0,
     total_vat |->
         IF Len(page) > 0 THEN SumSeq(Field(page, "vat_on_commission")) ELSE 0,
     net_to_owners |->
         IF Len(page) > 0 THEN SumSeq(Field(page, "net_to_owner")) ELSE 0,
     text_report |-> generate_comprehensive_report(ps, f)]

\* the page refreshes the stored breakdown of every payment at the default rates
ReportsView_recomputes(f) ==
    \E page \in Query(f), ps \in Query(f) :
        /\ response' = ReportsPage(page, ps, f)
        /\ payments' =
               [i \in PaymentIds |->
                   LET b == calculate_payment_breakdown(
                                payments[i].amount, DefaultCompanyRate, DefaultVatRate)
                   IN  [payments[i] EXCEPT
                           !.company_commission = b.company_commission,
                           !.vat_on_commission = b.vat_on_commission,
                           !.net_to_owner = b.net_to_owner]]
        /\ audit_logs' = <<>>
        /\ UNCHANGED <<units, projects, owners, tenants, calc, auth>>

\* GET /reports: the page's own query, then the text report, which queries again
ReportsView(f) ==
    \E page \in Query(f), ps \in Query(f) :
        /\ response' = ReportsPage(page, ps, f)
        /\ audit_logs' = <<>>
        /\ UNCHANGED <<payments, units, projects, owners, tenants, calc, auth>>

\* GET /export/payments/text
ExportPaymentsText(f) ==
    \E ps \in Query(f) :
        /\ response' = [kind |-> "report", op |-> "export_payments_text", args |-> f,
                        text_report |-> generate_comprehensive_report(ps, f)]
        /\ audit_logs' = <<>>
        /\ UNCHANGED <<payments, units, projects, owners, tenants, calc, auth>>

\* the columns written per payment by the CSV and the Excel export
ExportRow(p) ==
    [id |-> p.id, unit_id |-> p.unit_id, payer_type |-> p.payer_type,
     amount |-> p.amount, date |-> p.date,
     company_commission |-> p.company_commission,
     vat_on_commission |-> p.vat_on_commission, net_to_owner |-> p.net_to_owner]

\* the export records itself in the audit log
ExportPaymentsCsv_audited(f) ==
    \E ps \in Query(f) :
        /\ response' = [kind |-> "file", op |-> "export_payments_csv", args |-> f,
                        rows |-> [k \in 1..Len(ps) |-> ExportRow(ps[k])]]
        /\ audit_logs' = <<AuditLog("export_payments_csv", Len(ps))>>
        /\ UNCHANGED <<payments, units, projects, owners, tenants, calc, auth>>

\* GET /export/payments/csv
ExportPaymentsCsv(f) ==
    \E ps \in Query(f) :
        /\ response' = [kind |-> "file", op |-> "export_payments_csv", args |-> f,
                        rows |-> [k \in 1..Len(ps) |-> ExportRow(ps[k])]]
        /\ audit_logs' = <<>>
        /\ UNCHANGED <<payments, units, projects, owners, tenants, calc, auth>>

\* GET /export/payments/excel
ExportPaymentsExcel(f) ==
    \E ps \in Query(f) :
        /\ response' = [kind |-> "file", op |-> "export_payments_excel", args |-> f,
                        rows |-> [k \in 1..Len(ps) |-> ExportRow(ps[k])]]
        /\ audit_logs' = <<>>
        /\ UNCHANGED <<payments, units, projects, owners, tenants, calc, auth>>

----------------------------------------------------------------------------
(* The application: requests with forms and arguments from bounded sets    *)

BaseForm ==
    [unit_id |-> 1, payer_type |-> "tenant", payer_id |-> Some(1), amount |-> 4500000,
     company_rate |-> None, vat_rate |-> None, payment_date |-> <<2024, 1, 15>>]

\* forms that differ from the base form in the money fields
MoneyForms ==
    {[BaseForm EXCEPT !.amount = a] : a \in {-1000, 0, 100}}
    \cup {[BaseForm EXCEPT !.amount = 5000000, !.company_rate = Some(12),
                            !.vat_rate = Some(0), !.payment_date = None]}

\* forms that differ from the base form in payer, date or unit; owner 7 and
\* unit 9 do not exist, "agent" is a payer type the form does not offer
PayerForms ==
    {BaseForm,
     [BaseForm EXCEPT !.payer_type = "owner", !.payment_date = <<2024, 2, 10>>]}
    \cup {[BaseForm EXCEPT !.payer_type = "agent", !.payer_id = None,
                            !.payment_date = <<2024, 2, 10>>],
          [BaseForm EXCEPT !.payer_type = "owner", !.payer_id = Some(7)],
          [BaseForm EXCEPT !.unit_id = 2, !.payment_date = <<2024, 2, 10>>],
          [BaseForm EXCEPT !.unit_id = 9]}

Forms == MoneyForms \cup PayerForms

Filters ==
    {NoFilters,
     [NoFilters EXCEPT !.payer_type = Some("owner")],
     [NoFilters EXCEPT !.payer_type = Some("tenant")],
     [NoFilters EXCEPT !.project_id = Some(1)],
     [NoFilters EXCEPT !.start_date = <<2024, 2, 10>>],
     [NoFilters EXCEPT !.end_date = <<2024, 4, 20>>]}

PaymentIdInputs == 1..MaxPaymentId
UnitIdInputs == {2, 9}
ProjectIdInputs == {2, 7}
UnitNumberInputs == {"B-201"}

Init ==
    /\ InitTables
    /\ calc = CalcIdle

\* the response has been sent; the next request can be handled
Respond ==
    /\ response # NoResponse
    /\ response' = NoResponse
    /\ audit_logs' = <<>>
    /\ UNCHANGED <<payments, units, projects, owners, tenants, calc, auth>>

\* one request is handled at a time
Ready == response = NoResponse

Next ==
    \/ Ready /\ \E form \in Forms : CreatePayment(form)
    \/ Ready /\ \E payment_id \in PaymentIdInputs, form \in Forms :
                    EditPayment(payment_id, form)
    \/ Ready /\ \E payment_id \in PaymentIdInputs : DeletePayment(payment_id)
    \/ Ready /\ \E unit_id \in UnitIdInputs, project_id \in ProjectIdInputs,
                       unit_number \in UnitNumberInputs :
                    EditUnit(unit_id, project_id, unit_number)
    \/ Ready /\ \E f \in Filters : ReportsView(f)
    \/ Ready /\ \E f \in Filters : ExportPaymentsText(f)
    \/ Ready /\ \E f \in Filters : ExportPaymentsCsv(f)
    \/ Ready /\ \E f \in Filters : ExportPaymentsExcel(f)
    \/ Respond

Spec == Init /\ [][Next]_vars

----------------------------------------------------------------------------
(* The report on its own: the text export over ledgers of up to            *)
(* MaxLedgerRows payments, each stored by POST /payments from a form.      *)
(* The forms of a ledger follow patterns over the row number, so that      *)
(* there are more months than the monthly table shows, more payments than  *)
(* the top list shows, months and amounts that repeat, payments of unknown *)
(* units and of units of unknown projects, and totals of 0 and below.      *)

MaxLedgerRows == 8    \* payments in a ledger

\* the month o months after 2023-09
LedgerMonth(o) == <<2023 + ((8 + o) \div 12), ((8 + o) % 12) + 1>>

\* the payment_date field of row i: "spread" has every row in a month of its
\* own, out of order, the row of 2024-04 without a date; "dense" has three
\* months and two days
LedgerDate(months, i) ==
    IF months = "spread"
    THEN LET o == (3 * i) % 8
         IN  IF o = 7 THEN None
             ELSE <<LedgerMonth(o)[1], LedgerMonth(o)[2], 15>>
    ELSE LET m == LedgerMonth(5 + (i % 3))
         IN  <<m[1], m[2], IF i <= 4 THEN 10 ELSE 12>>

\* the amount field of row i: "tiers" repeats 100.00, 200.00, 300.00; "signed"
\* goes through 0.00 and -100.00
LedgerAmount(amounts, i) ==
    IF amounts = "tiers" THEN 100000 * (1 + (i % 3))
    ELSE 100000 * ((i % 4) - 1)

\* the unit_id field of row i: "six" goes round the units of six projects;
\* "stray" has unit 7, of a project that does not exist, and unit 9, which
\* does not exist
LedgerUnit(unit_ids, i) ==
    IF unit_ids = "six" THEN ((i - 1) % 6) + 1
    ELSE <<9, 1, 2, 7>>[(i % 4) + 1]

LedgerPayerType(i) == <<"agent", "tenant", "owner">>[(i % 3) + 1]

LedgerForm(months, amounts, unit_ids, rate, i) ==
    [unit_id |-> LedgerUnit(unit_ids, i),
     payer_type |-> LedgerPayerType(i),
     payer_id |-> IF LedgerPayerType(i) = "agent" THEN None ELSE Some(1),
     amount |-> LedgerAmount(amounts, i),
     company_rate |-> Some(rate), vat_rate |-> None,
     payment_date |-> LedgerDate(months, i)]

\* the row POST /payments stores for a form
StoredRow(form) ==
    PaymentRow(form, IF form.payment_date # None
                     THEN strptime(form.payment_date) ELSE Now)

LedgerRates == {2, 3, 5, 10, 12}

PatternLedgers ==
    {[i \in 1..n |-> StoredRow(LedgerForm(months, amounts, unit_ids, rate, i))] :
        months \in {"spread", "dense"}, amounts \in {"tiers", "signed"},
        unit_ids \in {"six", "stray"}, rate \in LedgerRates, n \in 0..MaxLedgerRows}

\* <<previous, current>>: the amounts of a payment of 2024-01 and one of 2024-02
TrendPairs ==
    {<<1000000, 1100010>>, <<1000000, 1100000>>, <<1000000, 1200000>>,
     <<1000000, 1000000>>, <<1000000, 950000>>, <<1000000, 949990>>,
     <<1000000, 900000>>, <<0, 1000000>>, <<-1000, 1000000>>}

TrendLedgers ==
    {<<StoredRow([BaseForm EXCEPT !.amount = t[2], !.payment_date = <<2024, 2, 10>>]),
       StoredRow([BaseForm EXCEPT !.amount = t[1]])>> : t \in TrendPairs}

ReportFilters ==
    Filters
    \cup {[NoFilters EXCEPT !.project_id = Some(99)],
          [NoFilters EXCEPT !.end_date = <<2024, 1, 15>>],
          [NoFilters EXCEPT !.start_date = <<2024, 4, 20>>],
          [NoFilters EXCEPT !.start_date = <<2023, 11, 15>>,
                            !.end_date = <<2024, 3, 15>>,
                            !.payer_type = Some("tenant")]}

InitReport ==
    /\ payments \in PatternLedgers \cup TrendLedgers
    /\ units = [u \in 1..7 |-> [project_id |-> IF u = 7 THEN 99 ELSE u,
                                 unit_number |-> "A-101"]]
    /\ projects = [p \in 1..6 |->
                      [name |-> <<"Rayan", "Nakheel", "Yasmin", "Wurud",
                                  "Rabwa", "Sahafa">>[p]]]
    /\ owners = {1, 2}
    /\ tenants = (1 :> [owner_id |-> 1])
    /\ audit_logs = <<>>
    /\ response = NoResponse
    /\ InitAuth
    /\ calc = CalcIdle

NextReport ==
    \/ Ready /\ \E f \in ReportFilters : ExportPaymentsText(f)
    \/ Respond

SpecReport == InitReport /\ [][NextReport]_vars

----------------------------------------------------------------------------
(* reports_view in a server that handles requests concurrently: the page's *)
(* own query and the query of generate_comprehensive_report are two steps,  *)
(* and requests handled by other workers commit between them.  The request  *)
(* followed is the one whose response is recorded.                          *)

\* the second query of the session: rows already loaded by the first query
\* are the same objects, with the attributes loaded then
Requery(page, f) ==
    LET loaded == {page[k].id : k \in 1..Len(page)}
        Object(i) == page[CHOOSE k \in 1..Len(page) : page[k].id = i]
    IN  {[k \in 1..Len(ps) |->
            IF ps[k].id \in loaded THEN Object(ps[k].id) ELSE ps[k]] :
         ps \in Query(f)}

\* GET /reports up to the page's own query
ReportsViewQuery(f) ==
    \E page \in Query(f) :
        /\ response' = [kind |-> "pending", op |-> "reports_view", args |-> f,
                        page |-> page]
        /\ audit_logs' = <<>>
        /\ UNCHANGED <<payments, units, projects, owners, tenants, calc, auth>>

\* GET /reports from the call of generate_comprehensive_report to the return
ReportsViewRender ==
    /\ response.kind = "pending"
    /\ \E ps \in Requery(response.page, response.args) :
           response' = ReportsPage(response.page, ps, response.args)
    /\ audit_logs' = <<>>
    /\ UNCHANGED <<payments, units, projects, owners, tenants, calc, auth>>

\* POST /payments handled and committed by another worker meanwhile
OtherCreatePayment(form) ==
    /\ response.kind = "pending"
    /\ NewPaymentId <= MaxPaymentId
    /\ PayerExists(form.payer_type, form.payer_id)
    /\ payments' = [i \in PaymentIds \cup {NewPaymentId} |->
                       IF i \in PaymentIds THEN payments[i] ELSE StoredRow(form)]
    /\ UNCHANGED <<units, projects, owners, tenants, audit_logs, response, calc, auth>>

\* POST /edit_payment/<payment_id> handled by another worker meanwhile
OtherEditPayment(payment_id, form) ==
    /\ response.kind = "pending"
    /\ payment_id \in PaymentIds
    /\ PayerExists(form.payer_type, form.payer_id)
    /\ payments' = [payments EXCEPT ![payment_id] =
                       PaymentRow(form, IF form.payment_date # None
                                        THEN strptime(form.payment_date)
                                        ELSE payments[payment_id].date)]
    /\ UNCHANGED <<units, projects, owners, tenants, audit_logs, response, calc, auth>>

\* DELETE /delete_payment/<payment_id> handled by another worker meanwhile
OtherDeletePayment(payment_id) ==
    /\ response.kind = "pending"
    /\ payment_id \in PaymentIds
    /\ payments' = [i \in PaymentIds \ {payment_id} |-> payments[i]]
    /\ UNCHANGED <<units, projects, owners, tenants, audit_logs, response, calc, auth>>

ConcurrentForms ==
    {BaseForm,
     [BaseForm EXCEPT !.amount = 100],
     [BaseForm EXCEPT !.payer_type = "owner", !.payment_date = <<2024, 2, 10>>]}

ConcurrentFilters ==
    {NoFilters, [NoFilters EXCEPT !.payer_type = Some("tenant")]}

NextConcurrent ==
    \/ Ready /\ \E form \in ConcurrentForms : CreatePayment(form)
    \/ Ready /\ \E f \in ConcurrentFilters : ReportsViewQuery(f)
    \/ \E form \in ConcurrentForms : OtherCreatePayment(form)
    \/ \E payment_id \in PaymentIdInputs, form \in ConcurrentForms :
           OtherEditPayment(payment_id, form)
    \/ \E payment_id \in PaymentIdInputs : OtherDeletePayment(payment_id)
    \/ ReportsViewRender
    \/ response.kind # "pending" /\ Respond

SpecConcurrent == Init /\ [][NextConcurrent]_vars

----------------------------------------------------------------------------
(* The owner, tenant, project and unit handlers                            *)

MaxOwnerId == 2       \* largest primary key handed out to an Owner row
MaxTenantId == 2      \* largest primary key handed out to a Tenant row
MaxUnitId == 2        \* largest primary key handed out to a Unit row

NewId(ids) == IF ids = {} THEN 1 ELSE SetMax(ids) + 1

Json(success, status) == [kind |-> "json", success |-> success, status |-> status]

\* owner.tenants: the tenants whose owner_id is the owner's id
TenantsOf(owner_id) == {t \in DOMAIN tenants : tenants[t].owner_id = owner_id}

\* POST /owners with a form that passes the validation
AddOwner ==
    /\ NewId(owners) <= MaxOwnerId
    /\ owners' = owners \cup {NewId(owners)}
    /\ audit_logs' = <<AuditLog("create_owner", NewId(owners))>>
    /\ response' = Redirect("owners_view", "success")
    /\ UNCHANGED <<payments, units, projects, tenants, calc, auth>>

\* POST /delete_owner/<owner_id>
DeleteOwner(owner_id) ==
    /\ IF owner_id \notin owners
       THEN /\ response' = Json(FALSE, 404)
            /\ audit_logs' = <<>> /\ UNCHANGED owners
       ELSE IF TenantsOf(owner_id) # {}
       THEN /\ response' = Json(FALSE, 400)
            /\ audit_logs' = <<>> /\ UNCHANGED owners
       ELSE /\ owners' = owners \ {owner_id}
            /\ audit_logs' = <<AuditLog("delete_owner", owner_id)>>
            /\ response' = Json(TRUE, 200)
    /\ UNCHANGED <<payments, units, projects, tenants, calc, auth>>

\* POST /tenants; owner_id is the form field, absent or an id
AddTenant(owner_id) ==
    /\ NewId(DOMAIN tenants) <= MaxTenantId
    /\ IF owner_id = None \/ owner_id[1] \notin owners \/ TenantsOf(owner_id[1]) # {}
       THEN /\ response' = Redirect("tenants_view", "error")
            /\ UNCHANGED tenants
       ELSE /\ tenants' = [t \in DOMAIN tenants \cup {NewId(DOMAIN tenants)} |->
                              IF t \in DOMAIN tenants THEN tenants[t]
                              ELSE [owner_id |-> owner_id[1]]]
            /\ response' = Redirect("tenants_view", "success")
    /\ audit_logs' = <<>>
    /\ UNCHANGED <<payments, units, projects, owners, calc, auth>>

\* the tenant is moved without a look at the tenants of the new owner
EditTenant_unchecked_move(tenant_id, owner_id) ==
    /\ IF tenant_id \notin DOMAIN tenants
       THEN /\ response' = Redirect("tenants_view", "error")
            /\ audit_logs' = <<>> /\ UNCHANGED tenants
       ELSE IF owner_id = None
       THEN /\ response' = Redirect("edit_tenant", "error")
            /\ audit_logs' = <<>> /\ UNCHANGED tenants
       ELSE IF owner_id[1] # tenants[tenant_id].owner_id /\ owner_id[1] \notin owners
       THEN /\ response' = Redirect("edit_tenant", "error")
            /\ audit_logs' = <<>> /\ UNCHANGED tenants
       ELSE /\ tenants' = [tenants EXCEPT ![tenant_id].owner_id = owner_id[1]]
            /\ audit_logs' = <<AuditLog("edit_tenant", tenant_id)>>
            /\ response' = Redirect("tenants_view", "success")
    /\ UNCHANGED <<payments, units, projects, owners, calc, auth>>

\* POST /edit_tenant/<tenant_id>
EditTenant(tenant_id, owner_id) ==
    /\ IF tenant_id \notin DOMAIN tenants
       THEN /\ response' = Redirect("tenants_view", "error")
            /\ audit_logs' = <<>> /\ UNCHANGED tenants
       ELSE IF owner_id = None
       THEN /\ response' = Redirect("edit_tenant", "error")
            /\ audit_logs' = <<>> /\ UNCHANGED tenants
       ELSE IF /\ owner_id[1] # tenants[tenant_id].owner_id
               /\ (owner_id[1] \notin owners \/ TenantsOf(owner_id[1]) # {})
       THEN /\ response' = Redirect("edit_tenant", "error")
            /\ audit_logs' = <<>> /\ UNCHANGED tenants
       ELSE /\ tenants' = [tenants EXCEPT ![tenant_id].owner_id = owner_id[1]]
            /\ audit_logs' = <<AuditLog("edit_tenant", tenant_id)>>
            /\ response' = Redirect("tenants_view", "success")
    /\ UNCHANGED <<payments, units, projects, owners, calc, auth>>

\* POST /delete_tenant/<tenant_id>
DeleteTenant(tenant_id) ==
    /\ IF tenant_id \notin DOMAIN tenants
       THEN /\ response' = Json(FALSE, 404)
            /\ audit_logs' = <<>> /\ UNCHANGED tenants
       ELSE /\ tenants' = [t \in DOMAIN tenants \ {tenant_id} |-> tenants[t]]
            /\ audit_logs' = <<AuditLog("delete_tenant", tenant_id)>>
            /\ response' = Json(TRUE, 200)
    /\ UNCHANGED <<payments, units, projects, owners, calc, auth>>

\* unit_number.strip()
strip(unit_number) ==
    IF unit_number = " A-101" THEN "A-101"
    ELSE IF unit_number = " " THEN ""
    ELSE unit_number

\* POST /add_unit; project_id and unit_number are form fields
AddUnit(project_id, unit_number) ==
    /\ NewId(DOMAIN units) <= MaxUnitId
    /\ IF \/ project_id = None
          \/ unit_number = None
          \/ strip(unit_number[1]) = ""
          \/ \E u \in DOMAIN units :
                 /\ units[u].project_id = project_id[1]
                 /\ units[u].unit_number = strip(unit_number[1])
       THEN /\ response' = Redirect("projects_view", "error")
            /\ UNCHANGED units
       ELSE /\ units' = [u \in DOMAIN units \cup {NewId(DOMAIN units)} |->
                            IF u \in DOMAIN units THEN units[u]
                            ELSE [project_id |-> project_id[1],
                                  unit_number |-> strip(unit_number[1])]]
            /\ response' = Redirect("projects_view", "success")
    /\ audit_logs' = <<>>
    /\ UNCHANGED <<payments, projects, owners, tenants, calc, auth>>

\* the unit is deleted without counting its payments
DeleteUnit_unguarded(unit_id) ==
    /\ IF unit_id \notin DOMAIN units
       THEN /\ response' = Redirect("projects_view", "error")
            /\ audit_logs' = <<>> /\ UNCHANGED units
       ELSE /\ units' = [u \in DOMAIN units \ {unit_id} |-> units[u]]
            /\ audit_logs' = <<AuditLog("delete_unit", unit_id)>>
            /\ response' = Redirect("projects_view", "success")
    /\ UNCHANGED <<payments, projects, owners, tenants, calc, auth>>

\* POST /delete_unit/<unit_id>
DeleteUnit(unit_id) ==
    /\ IF unit_id \notin DOMAIN units
       THEN /\ response' = Redirect("projects_view", "error")
            /\ audit_logs' = <<>> /\ UNCHANGED units
       ELSE IF \E i \in PaymentIds : payments[i].unit_id = unit_id
       THEN /\ response' = Redirect("projects_view", "error")
            /\ audit_logs' = <<>> /\ UNCHANGED units
       ELSE /\ units' = [u \in DOMAIN units \ {unit_id} |-> units[u]]
            /\ audit_logs' = <<AuditLog("delete_unit", unit_id)>>
            /\ response' = Redirect("projects_view", "success")
    /\ UNCHANGED <<payments, projects, owners, tenants, calc, auth>>

\* POST /delete_project/<project_id>
DeleteProject(project_id) ==
    /\ IF project_id \notin DOMAIN projects
       THEN /\ response' = Redirect("projects_view", "error")
            /\ audit_logs' = <<>> /\ UNCHANGED projects
       ELSE IF \E u \in DOMAIN units : units[u].project_id = project_id
       THEN /\ response' = Redirect("projects_view", "error")
            /\ audit_logs' = <<>> /\ UNCHANGED projects
       ELSE /\ projects' = [q \in DOMAIN projects \ {project_id} |-> projects[q]]
            /\ audit_logs' = <<AuditLog("delete_project", project_id)>>
            /\ response' = Redirect("projects_view", "success")
    /\ UNCHANGED <<payments, units, owners, tenants, calc, auth>>

\* payment forms of a tenant and of an owner, for a unit of each project
RegistryForms ==
    {BaseForm,
     [BaseForm EXCEPT !.unit_id = 2, !.payer_type = "owner", !.payer_id = Some(2)]}

OwnerIdInputs == {1, 2}
OwnerFieldInputs == {None, Some(1), Some(2), Some(7)}
TenantIdInputs == {1, 2}
RegistryUnitIds == {1, 2}
RegistryProjectIds == {1, 2}
ProjectFieldInputs == {None, Some(1), Some(2)}
UnitNumberFieldInputs == {None, Some(" "), Some("A-101"), Some(" A-101"), Some("B-201")}
RegistryUnitNumbers == {"A-101", "B-201"}

NextRegistry ==
    \/ Ready /\ AddOwner
    \/ Ready /\ \E owner_id \in OwnerIdInputs : DeleteOwner(owner_id)
    \/ Ready /\ \E owner_id \in OwnerFieldInputs : AddTenant(owner_id)
    \/ Ready /\ \E tenant_id \in TenantIdInputs, owner_id \in OwnerFieldInputs :
                    EditTenant(tenant_id, owner_id)
    \/ Ready /\ \E tenant_id \in TenantIdInputs : DeleteTenant(tenant_id)
    \/ Ready /\ \E project_id \in ProjectFieldInputs,
                       unit_number \in UnitNumberFieldInputs :
                    AddUnit(project_id, unit_number)
    \/ Ready /\ \E unit_id \in RegistryUnitIds, project_id \in RegistryProjectIds,
                       unit_number \in RegistryUnitNumbers :
                    EditUnit(unit_id, project_id, unit_number)
    \/ Ready /\ \E unit_id \in RegistryUnitIds : DeleteUnit(unit_id)
    \/ Ready /\ \E project_id \in RegistryProjectIds : DeleteProject(project_id)
    \/ Ready /\ \E form \in RegistryForms : CreatePayment(form)
    \/ Ready /\ \E payment_id \in PaymentIdInputs, form \in RegistryForms :
                    EditPayment(payment_id, form)
    \/ Ready /\ \E payment_id \in PaymentIdInputs : DeletePayment(payment_id)
    \/ Respond

SpecRegistry == Init /\ [][NextRegistry]_vars

----------------------------------------------------------------------------
(* Login, logout, session timeout and password reset                       *)

\* the tables no login or reset handler writes
stored == <<payments, units, projects, owners, tenants, calc>>

Page(template, flash) == [kind |-> "page", template |-> template, flash |-> flash]

\* db.session.add(AuditLog(action=..., user=username))
UserAuditLog(action, id) ==
    [action |-> action, id |-> id, user |-> users[id].username]

RECURSIVE lstrip(_)
lstrip(text) ==
    IF text # <<>> /\ Head(text) = " " THEN lstrip(Tail(text)) ELSE text

RECURSIVE rstrip(_)
rstrip(text) ==
    IF text # <<>> /\ text[Len(text)] = " "
    THEN rstrip(SubSeq(text, 1, Len(text) - 1)) ELSE text

IsNotAngle(c) == c \notin {"<", ">"}

\* re.sub(r'[<>]', '', str(text).strip())
sanitize_input(text) ==
    IF text = <<>> THEN text ELSE SelectSeq(rstrip(lstrip(text)), IsNotAngle)

\* current_user.is_authenticated
IsAuthenticated == session.user_id # None

\* check_session_timeout finds the session expired
SessionExpired ==
    /\ IsAuthenticated
    /\ session.last_activity # None
    /\ clock - session.last_activity[1] > SessionTimeoutMinutes

\* the session as check_session_timeout leaves it for the view
Touched ==
    IF IsAuthenticated THEN [session EXCEPT !.last_activity = Some(clock)]
    ELSE session

\* check_session_timeout answers the request itself: logout_user() and the
\* redirect to the login page; last_activity stays as it was
TimedOut(req) ==
    /\ session' = [session EXCEPT !.user_id = None]
    /\ response' = Redirect("login", "session_expired")
    /\ audit_logs' = <<>>
    /\ request' = req
    /\ UNCHANGED <<users, clock, stored>>

\* the rows of User.query.filter_by(username=username)
ByUsername(username) == {u \in DOMAIN users : users[u].username = username}

\* the rows of User.query.filter_by(email=email)
ByEmail(email) == {u \in DOMAIN users : users[u].email = email}

\* the rows of User.query.filter_by(password_reset_token=token)
ByResetToken(token) ==
    {u \in DOMAIN users : users[u].password_reset_token = Some(token)}

\* the expiry of the token is never looked at
TokenExpired_never(user, now) == FALSE

\* user.password_reset_expires and datetime.utcnow() > user.password_reset_expires
TokenExpired(user, now) ==
    user.password_reset_expires # None /\ now > user.password_reset_expires[1]

\* POST /login
Login(username, password) ==
    LET req == [op |-> "login", username |-> username, password |-> password,
                time |-> clock]
        name == sanitize_input(username)
    IN  IF SessionExpired THEN TimedOut(req)
        ELSE /\ request' = req
             /\ UNCHANGED <<clock, stored>>
             /\ IF IsAuthenticated
                THEN /\ response' = Redirect("dashboard", "none")
                     /\ session' = Touched
                     /\ audit_logs' = <<>> /\ UNCHANGED users
                ELSE IF name = <<>> \/ Len(name) < MinUsernameLength
                THEN /\ response' = Page("login", "username_required")
                     /\ audit_logs' = <<>> /\ UNCHANGED <<users, session>>
                ELSE IF password = <<>>
                THEN /\ response' = Page("login", "password_required")
                     /\ audit_logs' = <<>> /\ UNCHANGED <<users, session>>
                ELSE IF ByUsername(name) = {}
                THEN /\ response' = Page("login", "unknown_user")
                     /\ audit_logs' = <<>> /\ UNCHANGED <<users, session>>
                ELSE LET u == CHOOSE u \in ByUsername(name) : TRUE
                     IN  IF is_account_locked(users[u], clock)
                         THEN /\ response' = Page("login", "locked")
                              /\ audit_logs' = <<>> /\ UNCHANGED <<users, session>>
                         ELSE IF ~ users[u].is_active
                         THEN /\ response' = Page("login", "inactive")
                              /\ audit_logs' = <<>> /\ UNCHANGED <<users, session>>
                         ELSE IF check_password(users[u], password)
                         THEN /\ users' = [users EXCEPT
                                              ![u] = reset_login_attempts(@)]
                              /\ session' = [session EXCEPT !.user_id = Some(u)]
                              /\ audit_logs' = <<UserAuditLog("login_success", u)>>
                              /\ response' = Redirect("dashboard", "none")
                         ELSE /\ users[u].login_attempts < MaxLoginAttempts
                              /\ users' = [users EXCEPT
                                              ![u] = increment_login_attempts(@, clock)]
                              /\ audit_logs' = <<UserAuditLog("login_failed", u)>>
                              /\ response' =
                                     Page("login",
                                          IF users'[u].login_attempts >= LockAfterAttempts
                                          THEN "account_locked" ELSE "wrong_password")
                              /\ UNCHANGED session

\* GET /logout
Logout ==
    LET req == [op |-> "logout", time |-> clock]
    IN  IF SessionExpired THEN TimedOut(req)
        ELSE /\ request' = req
             /\ audit_logs' = <<>>
             /\ UNCHANGED <<users, clock, stored>>
             /\ IF IsAuthenticated
                THEN /\ session' = [Touched EXCEPT !.user_id = None]
                     /\ response' = Redirect("login", "logged_out")
                ELSE /\ response' = Redirect("login", "login_required")
                     /\ UNCHANGED session

\* GET /dashboard, as any page behind @login_required
Dashboard ==
    LET req == [op |-> "dashboard", time |-> clock]
    IN  IF SessionExpired THEN TimedOut(req)
        ELSE /\ request' = req
             /\ audit_logs' = <<>>
             /\ session' = Touched
             /\ UNCHANGED <<users, clock, stored>>
             /\ response' = IF IsAuthenticated THEN Page("dashboard", "none")
                            ELSE Redirect("login", "login_required")

\* POST /forgot-password
ForgotPassword(email) ==
    LET req == [op |-> "forgot_password", email |-> email, time |-> clock]
    IN  IF SessionExpired THEN TimedOut(req)
        ELSE /\ request' = req
             /\ audit_logs' = <<>>
             /\ session' = Touched
             /\ UNCHANGED <<clock, stored>>
             /\ IF IsAuthenticated
                THEN /\ response' = Redirect("dashboard", "none")
                     /\ UNCHANGED users
                ELSE IF ByEmail(email) = {}
                THEN /\ response' = Page("forgot_password", "not_found")
                     /\ UNCHANGED users
                ELSE LET u == CHOOSE u \in ByEmail(email) : TRUE
                     IN  \E token \in {"token-a", "token-b"} :
                             /\ users' = [users EXCEPT
                                             ![u] = generate_reset_token(@, token, clock)]
                             /\ response' = [kind |-> "page",
                                             template |-> "forgot_password",
                                             flash |-> "token_sent",
                                             token |-> token]

\* GET or POST /reset-password/<token>
ResetPassword(token, method, password, confirm_password) ==
    LET req == [op |-> "reset_password", token |-> token, method |-> method,
                password |-> password, confirm_password |-> confirm_password,
                time |-> clock]
    IN  IF SessionExpired THEN TimedOut(req)
        ELSE /\ request' = req
             /\ session' = Touched
             /\ UNCHANGED <<clock, stored>>
             /\ IF IsAuthenticated
                THEN /\ response' = Redirect("dashboard", "none")
                     /\ audit_logs' = <<>> /\ UNCHANGED users
                ELSE IF \/ ByResetToken(token) = {}
                        \/ TokenExpired(users[CHOOSE u \in ByResetToken(token) : TRUE],
                                        clock)
                THEN /\ response' = Redirect("login", "invalid_token")
                     /\ audit_logs' = <<>> /\ UNCHANGED users
                ELSE IF method = "GET"
                THEN /\ response' = Page("reset_password", "none")
                     /\ audit_logs' = <<>> /\ UNCHANGED users
                ELSE IF password # confirm_password
                THEN /\ response' = Page("reset_password", "mismatch")
                     /\ audit_logs' = <<>> /\ UNCHANGED users
                ELSE IF ~ validate_password_strength(password)
                THEN /\ response' = Page("reset_password", "weak_password")
                     /\ audit_logs' = <<>> /\ UNCHANGED users
                ELSE LET u == CHOOSE u \in ByResetToken(token) : TRUE
                     IN  /\ users' =
                                [users EXCEPT
                                    ![u].password_hash = generate_password_hash(password),
                                    ![u].password_reset_token = None,
                                    ![u].password_reset_expires = None]
                         /\ audit_logs' = <<UserAuditLog("reset_password", u)>>
                         /\ response' = Redirect("login", "reset_done")

\* half an hour passes
Tick ==
    /\ clock < MaxClock
    /\ clock' = clock + TickMinutes
    /\ UNCHANGED <<users, session, request, response, audit_logs, stored>>

NewPassword == <<"N", "e", "w", "A", "d", "m", "i", "n", "1">>
WeakPassword == <<"a", "d", "m", "i", "n", "1", "2", "3">>

UsernameInputs == {<<" ", "<", "a", "d", "m", "i", "n", ">">>,
                   <<"a", "d">>, <<"g", "u", "e", "s", "t">>}
PasswordInputs == {SeedPassword, NewPassword, <<>>}
EmailInputs == {"admin@kthaib.com", "guest@kthaib.com"}
TokenInputs == {"token-a", "token-b"}
ResetForms ==
    {<<"GET", <<>>, <<>>>>,
     <<"POST", NewPassword, NewPassword>>,
     <<"POST", NewPassword, SeedPassword>>,
     <<"POST", WeakPassword, WeakPassword>>}

NextAuth ==
    \/ \E username \in UsernameInputs, password \in PasswordInputs :
           Login(username, password)
    \/ Logout
    \/ Dashboard
    \/ \E email \in EmailInputs : ForgotPassword(email)
    \/ \E token \in TokenInputs, form \in ResetForms :
           ResetPassword(token, form[1], form[2], form[3])
    \/ Tick

SpecAuth == Init /\ [][NextAuth]_vars

\* A returned call whose inputs are in the documented ranges: a non-negative
\* amount with two decimals, both rates in [0, 1]
CalcInRange ==
    /\ calc.state = "returned"
    /\ calc.amount >= 0
    /\ calc.amount % Cent = 0
    /\ calc.company_rate \in 0..RateScale
    /\ calc.vat_rate \in 0..RateScale

\* C1: for an amount >= 0 with two decimals and rates in [0, 1], the three
\* returned values add up to the amount within 0.01.
C1_BreakdownSumsToAmount ==
    CalcInRange =>
        Abs(calc.result.company_commission + calc.result.vat_on_commission
            + calc.result.net_to_owner - calc.amount) <= Cent

\* an in-range call where both roundings were inexact and VAT is not 0
C1_Witness ==
    /\ CalcInRange
    /\ (calc.amount * calc.company_rate) % (RateScale * Cent) # 0
    /\ (calc.result.company_commission * calc.vat_rate) % (RateScale * Cent) # 0
    /\ calc.result.vat_on_commission > 0

\* v is the multiple of 0.01 nearest to n / d mills (either one on a tie)
NearestCent(v, n, d) ==
    /\ v % Cent = 0
    /\ 2 * Abs(v * d - n) <= Cent * d

\* C2: each step is rounded to 2 decimals: the commission is amount * rate
\* rounded, the VAT is (rounded commission) * vatRate rounded, the net is
\* amount - commission - VAT rounded; (1000, 0.05, 0.15) gives
\* (50.00, 7.50, 942.50) and (0, 0.05, 0.15) gives (0, 0, 0).
C2_RoundsAtEachStep ==
    calc.state = "returned" =>
        LET r == calc.result
        IN  /\ NearestCent(r.company_commission,
                           calc.amount * calc.company_rate, RateScale)
            /\ NearestCent(r.vat_on_commission,
                           r.company_commission * calc.vat_rate, RateScale)
            /\ NearestCent(r.net_to_owner,
                           calc.amount - r.company_commission - r.vat_on_commission, 1)
            /\ (calc.amount = 1000000 /\ calc.company_rate = 5 /\ calc.vat_rate = 15)
                   => r = [company_commission |-> 50000, vat_on_commission |-> 7500,
                           net_to_owner |-> 942500]
            /\ (calc.amount = 0 /\ calc.company_rate = 5 /\ calc.vat_rate = 15)
                   => r = [company_commission |-> 0, vat_on_commission |-> 0,
                           net_to_owner |-> 0]

\* a call where the VAT on the rounded commission is not the VAT on the exact one
C2_Witness ==
    /\ calc.state = "returned"
    /\ ~ NearestCent(calc.result.vat_on_commission,
                     calc.amount * calc.company_rate * calc.vat_rate,
                     RateScale * RateScale)

----------------------------------------------------------------------------
(* Properties of the stored payments                                       *)

\* the payments present before and after a step
Kept == PaymentIds \cap DOMAIN payments'

RatesChanged(i) ==
    \/ payments'[i].company_rate # payments[i].company_rate
    \/ payments'[i].vat_rate # payments[i].vat_rate

Computed(p) == <<p.company_commission, p.vat_on_commission, p.net_to_owner>>

\* the request just handled was a successful edit of payment i
EditedNow(i) == audit_logs' = <<AuditLog("edit_payment", i)>>

\* C3 as stated: once a payment is created, no operation stores a different
\* company_rate or vat_rate for it.
C3_RatesNeverChange ==
    [][\A i \in Kept : ~ RatesChanged(i)]_vars

\* C3: the company_rate and vat_rate of a stored payment change only in a
\* successful edit_payment of that payment; no other operation changes them.
C3_RatesChangeOnlyByEdit ==
    [][\A i \in Kept : RatesChanged(i) => EditedNow(i)]_vars

\* a payment dated 2024-02-10 at a 12% rate: every form dated 2024-02-10 leaves
\* the rate at its default, so the rate was changed by an edit
C3_Witness ==
    \E i \in PaymentIds :
        /\ audit_logs = <<AuditLog("edit_payment", i)>>
        /\ payments[i].company_rate = 12
        /\ payments[i].date = strptime(<<2024, 2, 10>>)

\* C4: the stored commission, VAT and net of a payment change only in an edit
\* of that payment in which amount, company_rate or vat_rate changes; every
\* other request (on another payment, a report, an export, an edit with the
\* same amount and rates) leaves them as they are.
C4_ComputedChangeOnlyByEdit ==
    [][\A i \in Kept :
          Computed(payments'[i]) # Computed(payments[i]) =>
              /\ EditedNow(i)
              /\ \/ payments'[i].amount # payments[i].amount
                 \/ RatesChanged(i)]_vars

\* a payment dated 2024-01-15 whose breakdown is that of 5000.00 at 12% and 0%:
\* the form with these values has no date, so an edit recomputed the breakdown
C4_Witness ==
    \E i \in PaymentIds :
        /\ audit_logs = <<AuditLog("edit_payment", i)>>
        /\ payments[i].date = strptime(<<2024, 1, 15>>)
        /\ Computed(payments[i]) = <<600000, 0, 4400000>>

----------------------------------------------------------------------------
(* Properties of the report                                                *)

IsReport == response.kind = "report"
Report == response.text_report

\* the payments the arguments of the answered request select
FilteredIds == {i \in PaymentIds : Matches(i, response.args)}

RECURSIVE SumIds(_, _)
SumIds(S, name) ==
    IF S = {} THEN 0
    ELSE LET i == CHOOSE x \in S : TRUE
         IN  payments[i][name] + SumIds(S \ {i}, name)

\* C5: the report's totals are the sums of the stored amount,
\* company_commission, vat_on_commission and net_to_owner of the filtered
\* payments, not values recomputed from amounts and rates.
C5_TotalsAreStoredSums ==
    IsReport =>
        /\ Report.records = Cardinality(FilteredIds)
        /\ Report.total_payments = SumIds(FilteredIds, "amount")
        /\ Report.total_commissions = SumIds(FilteredIds, "company_commission")
        /\ Report.total_vat = SumIds(FilteredIds, "vat_on_commission")
        /\ Report.net_to_owners = SumIds(FilteredIds, "net_to_owner")

\* a report over several payments, one of them not at the default rate, whose
\* total commission is not the commission of the total amount
C5_Witness ==
    /\ IsReport
    /\ Report.records >= 2
    /\ \E i \in FilteredIds : payments[i].company_rate # DefaultCompanyRate
    /\ Report.total_commissions #
           calculate_payment_breakdown(Report.total_payments, DefaultCompanyRate,
                                       DefaultVatRate).company_commission

\* x is the quotient n / d, in lowest terms or not
IsQuotient(x, n, d) ==
    LET k == d \div x.den
    IN  /\ x.den > 0
        /\ d = k * x.den
        /\ n = k * x.num

\* C6 as stated: the commission percentage is totalCommission / totalAmount *
\* 100 whenever totalAmount is not 0, and 0 when it is 0.
C6_PercentageUnlessZero ==
    IsReport =>
        IF Report.total_payments # 0
        THEN IsQuotient(Report.commission_percentage,
                        Report.total_commissions * 100, Report.total_payments)
        ELSE Report.commission_percentage = Zero

\* C6: the commission percentage is totalCommission / totalAmount * 100 when
\* totalAmount > 0 and 0 when totalAmount <= 0; for 10000 and 1200 it is 12.
C6_PercentageWhenPositive ==
    IsReport =>
        /\ IF Report.total_payments > 0
           THEN IsQuotient(Report.commission_percentage,
                           Report.total_commissions * 100, Report.total_payments)
           ELSE Report.commission_percentage = Zero
        /\ (Report.total_payments = 10000000 /\ Report.total_commissions = 1200000)
               => Report.commission_percentage = [num |-> 12, den |-> 1]

\* a report with total 10000.00 and commission 1200.00
C6_Witness ==
    /\ IsReport
    /\ Report.total_payments = 10000000
    /\ Report.total_commissions = 1200000

DataSections == {"projects", "monthly", "quarterly", "top"}
SectionSet(r) == {r.sections[k] : k \in 1..Len(r.sections)}

\* C7: for an empty filtered set the report is produced, every sum and every
\* percentage is 0, the project, monthly and quarterly breakdowns are empty, and
\* the sections that need data (projects, monthly, quarterly, top
\* transactions, trend) are left out.
C7_EmptyReport ==
    (IsReport /\ FilteredIds = {}) =>
        /\ Report.records = 0
        /\ Report.total_payments = 0 /\ Report.total_commissions = 0
        /\ Report.total_vat = 0 /\ Report.net_to_owners = 0
        /\ Report.avg_payment = Zero /\ Report.avg_commission = Zero
        /\ Report.commission_percentage = Zero
        /\ Report.owners.percentage = Zero /\ Report.tenants.percentage = Zero
        /\ Report.owners.count = 0 /\ Report.tenants.count = 0
        /\ Report.owners.lines = <<>> /\ Report.tenants.lines = <<>>
        /\ Report.project_stats = <<>> /\ Report.project_lines = <<>>
        /\ Report.monthly_stats = <<>> /\ Report.monthly_lines = <<>>
        /\ Report.quarterly_stats = <<>> /\ Report.quarterly_lines = <<>>
        /\ Report.trend_analysis = <<>>
        /\ Report.top_payments = <<>>
        /\ Report.deals_per_day = Zero
        /\ SectionSet(Report) \cap DataSections = {}
        /\ {"header", "summary", "payer_types", "kpis", "recommendations", "footer"}
               \subseteq SectionSet(Report)

\* a report whose filter selects nothing from a table that has payments
C7_Witness ==
    /\ IsReport
    /\ FilteredIds = {}
    /\ PaymentIds # {}

\* C8 as stated: every filtered payment is added to exactly one project group
\* (its project's name, or the fallback label), so the group counts add up to
\* the number of filtered payments and the group totals to the total amount.
C8_ProjectGroupsCoverRecords ==
    IsReport =>
        /\ SumSeq(Field(Report.project_stats, "count")) = Cardinality(FilteredIds)
        /\ SumSeq(Field(Report.project_stats, "total")) = SumIds(FilteredIds, "amount")

OfType(type) == {i \in FilteredIds : payments[i].payer_type = type}

\* the lines l of one payer type are those of the set S of its payments
PayerLinesOf(l, S) ==
    /\ l.count = Cardinality(S)
    /\ IsQuotient(l.percentage, Cardinality(S) * 100, Cardinality(FilteredIds))
    /\ S = {} => l.lines = <<>>
    /\ S # {} => /\ Len(l.lines) = 1
                 /\ l.lines[1].total = SumIds(S, "amount")
                 /\ IsQuotient(l.lines[1].avg, SumIds(S, "amount"), Cardinality(S))

\* C9: the payer-type split gives, for the owner payments and for the tenant
\* payments separately, their count, total and average, and their share of the
\* number of records; one owner and one tenant payment show as 1 (50.0%) each.
C9_PayerSplit ==
    (IsReport /\ FilteredIds # {}) =>
        /\ PayerLinesOf(Report.owners, OfType("owner"))
        /\ PayerLinesOf(Report.tenants, OfType("tenant"))
        /\ (Cardinality(FilteredIds) = 2 /\ Cardinality(OfType("owner")) = 1
              /\ Cardinality(OfType("tenant")) = 1)
               => /\ Report.owners.count = 1 /\ Report.owners.percentage_text = 500
                  /\ Report.tenants.count = 1 /\ Report.tenants.percentage_text = 500

\* a report over one owner payment and one tenant payment
C9_Witness ==
    /\ IsReport
    /\ Cardinality(FilteredIds) = 2
    /\ Cardinality(OfType("owner")) = 1
    /\ Cardinality(OfType("tenant")) = 1
    /\ Report.owners.lines # <<>>

InMonth(key, type) ==
    {i \in OfType(type) : MonthKey(payments[i].date) = key}

\* C10 as stated: in every monthly bucket the owner and tenant sub-counts are
\* the numbers of owner and tenant payments of that month, and over all
\* buckets they add up to the owner and tenant counts of the payer-type split.
C10_MonthlySubCounts ==
    IsReport =>
        /\ \A k \in 1..Len(Report.monthly_stats) :
               LET b == Report.monthly_stats[k]
               IN  /\ b.owners = Cardinality(InMonth(b.key, "owner"))
                   /\ b.tenants = Cardinality(InMonth(b.key, "tenant"))
        /\ SumSeq(Field(Report.monthly_stats, "owners")) = Report.owners.count
        /\ SumSeq(Field(Report.monthly_stats, "tenants")) = Report.tenants.count

----------------------------------------------------------------------------
(* Properties of the period buckets, the trend and the top list            *)

\* period a = <<year, n>> is later than period b
Later(a, b) == a[1] > b[1] \/ (a[1] = b[1] /\ a[2] > b[2])

\* the filtered payments dated in month <<year, month>>
OfMonth(key) ==
    {i \in FilteredIds : <<payments[i].date.year, payments[i].date.month>> = key}

\* the months in which a filtered payment is dated
FilteredMonths ==
    {<<payments[i].date.year, payments[i].date.month>> : i \in FilteredIds}

KeySet(d) == {d[k].key : k \in 1..Len(d)}

\* C11: the monthly buckets are keyed by (year, month) of the payment date and
\* every filtered payment is counted in exactly one of them, so the counts add
\* up to the number of records; the monthly table shows at most 6 buckets,
\* the most recent ones, in strictly descending order of period.
C11_MonthlyBuckets ==
    IsReport =>
        LET stats == Report.monthly_stats
            lines == Report.monthly_lines
        IN  /\ KeySet(stats) = FilteredMonths
            /\ Len(stats) = Cardinality(FilteredMonths)
            /\ \A k \in 1..Len(stats) :
                   /\ stats[k].count = Cardinality(OfMonth(stats[k].key))
                   /\ stats[k].total = SumIds(OfMonth(stats[k].key), "amount")
                   /\ stats[k].commissions =
                          SumIds(OfMonth(stats[k].key), "company_commission")
            /\ SumSeq(Field(stats, "count")) = Cardinality(FilteredIds)
            /\ Len(lines) = (IF Len(stats) < 6 THEN Len(stats) ELSE 6)
            /\ \A k \in 1..Len(lines) : \E j \in 1..Len(stats) : lines[k] = stats[j]
            /\ \A k \in 1..(Len(lines) - 1) : Later(lines[k].key, lines[k + 1].key)
            /\ \A m \in FilteredMonths \ KeySet(lines) :
                   \A k \in 1..Len(lines) : Later(lines[k].key, m)

\* a report over more than 6 months, two of them in different years
C11_Witness ==
    /\ IsReport
    /\ Len(Report.monthly_stats) > 6
    /\ Len(Report.monthly_lines) = 6
    /\ \E a, b \in FilteredMonths : a[1] # b[1]

\* the quarter of a month: 1-3 -> 1, 4-6 -> 2, 7-9 -> 3, 10-12 -> 4
QuarterOf(month) == <<1, 1, 1, 2, 2, 2, 3, 3, 3, 4, 4, 4>>[month]

\* the monthly buckets of the months of quarter q = <<year, quarter>>
MonthsOfQuarter(stats, q) ==
    SelectSeq(stats, LAMBDA b : b.key[1] = q[1] /\ QuarterOf(b.key[2]) = q[2])

\* C12: the quarterly buckets are keyed by (year, quarter), the quarter of
\* months 1-3 being 1, of 4-6 2, of 7-9 3 and of 10-12 4; the count, total and
\* commission of a bucket are the sums of those of the monthly buckets of its
\* months; every quarterly bucket is shown, in descending order of period.
C12_QuarterlyBuckets ==
    IsReport =>
        LET stats == Report.quarterly_stats
            lines == Report.quarterly_lines
            monthly == Report.monthly_stats
        IN  /\ KeySet(stats) = {<<m[1], QuarterOf(m[2])>> : m \in FilteredMonths}
            /\ Len(stats) = Cardinality(KeySet(stats))
            /\ \A k \in 1..Len(stats) :
                   LET of == MonthsOfQuarter(monthly, stats[k].key)
                   IN  /\ stats[k].count = SumSeq(Field(of, "count"))
                       /\ stats[k].total = SumSeq(Field(of, "total"))
                       /\ stats[k].commissions = SumSeq(Field(of, "commissions"))
            /\ Len(lines) = Len(stats)
            /\ \A k \in 1..Len(stats) : \E j \in 1..Len(lines) : lines[j] = stats[k]
            /\ \A k \in 1..(Len(lines) - 1) : Later(lines[k].key, lines[k + 1].key)

\* a report over quarters of two years, one of them with several months
C12_Witness ==
    /\ IsReport
    /\ Len(Report.quarterly_lines) >= 3
    /\ \E a, b \in KeySet(Report.quarterly_stats) : a[1] # b[1]
    /\ \E k \in 1..Len(Report.quarterly_stats) :
           Len(MonthsOfQuarter(Report.monthly_stats, Report.quarterly_stats[k].key)) >= 2

\* the latest of a set of periods
Latest(S) == CHOOSE a \in S : \A b \in S \ {a} : Later(a, b)

\* the totals of the most recent month and of the one before it (when the
\* filtered payments are of two months or more)
CurrentTotal == SumIds(OfMonth(Latest(FilteredMonths)), "amount")
PreviousTotal ==
    SumIds(OfMonth(Latest(FilteredMonths \ {Latest(FilteredMonths)})), "amount")

\* v, in hundredths, is the rendering with two decimals of (c - p) / p * 100
IsGrowthText(v, c, p) ==
    LET g == Frac((c - p) * 100, p)
    IN  2 * Abs(v * g.den - g.num * 100) <= g.den

\* C13 as stated: the trend is in the report exactly when there are two
\* monthly buckets or more and the total of the second most recent is not 0.
C13_TrendUnlessPreviousZero ==
    IsReport =>
        (Report.trend_analysis # <<>>
            <=> (Cardinality(FilteredMonths) >= 2 /\ PreviousTotal # 0))

\* C13: the trend is in the report exactly when there are two monthly buckets
\* or more and the total of the second most recent is greater than 0; its
\* growth rate is then (current - previous) / previous * 100 of the totals of
\* the two most recent months, shown with two decimals.
C13_TrendWhenPreviousPositive ==
    IsReport =>
        /\ Report.trend_analysis # <<>>
               <=> (Cardinality(FilteredMonths) >= 2 /\ PreviousTotal > 0)
        /\ Report.trend_analysis # <<>> =>
               /\ Len(Report.trend_analysis) = 1
               /\ IsGrowthText(Report.trend_analysis[1], CurrentTotal, PreviousTotal)

\* a report over three months or more with a trend that is a decline
C13_Witness ==
    /\ IsReport
    /\ Cardinality(FilteredMonths) >= 3
    /\ Report.trend_analysis # <<>>
    /\ Report.trend_analysis[1] < 0

\* the place of payment i in the sequence the query returned
FetchedAt(i) == CHOOSE k \in 1..Len(Report.payments) : Report.payments[k] = i

\* C14: the top list has min(5, number of records) entries; it is sorted
\* descending by amount; no unlisted payment has a larger amount than a listed
\* one; payments of one amount are in the order in which they were fetched.
C14_TopPayments ==
    IsReport =>
        LET top == Report.top_payments
            n == Cardinality(FilteredIds)
            listed == {top[k].id : k \in 1..Len(top)}
        IN  /\ Len(top) = (IF n < 5 THEN n ELSE 5)
            /\ Len(top) <= 5
            /\ \A k \in 1..Len(top) :
                   top[k].id \in FilteredIds /\ top[k] = Fetched(top[k].id)
            /\ Cardinality(listed) = Len(top)
            /\ \A k \in 1..(Len(top) - 1) : top[k].amount >= top[k + 1].amount
            /\ \A i \in listed, j \in FilteredIds \ listed :
                   payments[i].amount >= payments[j].amount
            /\ \A k \in 1..(Len(top) - 1) :
                   top[k].amount = top[k + 1].amount
                       => FetchedAt(top[k].id) < FetchedAt(top[k + 1].id)
            /\ \A i \in listed, j \in FilteredIds \ listed :
                   payments[i].amount = payments[j].amount
                       => FetchedAt(i) < FetchedAt(j)

\* a report over more than 5 payments where listed payments have one amount,
\* and an unlisted payment has the amount of a listed one
C14_Witness ==
    /\ IsReport
    /\ Report.records > 5
    /\ Len(Report.top_payments) = 5
    /\ \E k \in 1..4 : Report.top_payments[k].amount = Report.top_payments[k + 1].amount
    /\ \E i \in FilteredIds :
           /\ \A k \in 1..5 : Report.top_payments[k].id # i
           /\ payments[i].amount = Report.top_payments[5].amount

----------------------------------------------------------------------------
(* Properties of the filters                                               *)

\* the payments the report was computed from
Reported == {Report.payments[k] : k \in 1..Len(Report.payments)}

\* the day of a datetime, and of a date string, as a number of days
DayOf(d) == (d.year * 12 + (d.month - 1)) * 31 + (d.day - 1)
DayOfString(s) == (s[1] * 12 + (s[2] - 1)) * 31 + (s[3] - 1)

\* C15 as stated: with a start and / or an end date, a payment is in the
\* report exactly when start <= the day of its date <= end, so a payment dated
\* on the end day, at any time of that day, is in the report.
C15_DateBoundsInclusive ==
    (IsReport /\ response.args.project_id = None /\ response.args.payer_type = None) =>
        Reported =
            {i \in PaymentIds :
                /\ response.args.start_date # None =>
                       DayOfString(response.args.start_date) <= DayOf(payments[i].date)
                /\ response.args.end_date # None =>
                       DayOf(payments[i].date) <= DayOfString(response.args.end_date)}

\* the payments of payer type t that the other arguments of the request select
OfPayerType(t) ==
    {i \in PaymentIds :
        /\ payments[i].payer_type = t
        /\ Matches(i, [response.args EXCEPT !.payer_type = None])}

\* the name of the project group of payment i, which has a unit
ProjectNameOf(i) ==
    LET project_id == units[payments[i].unit_id].project_id
    IN  IF project_id \in DOMAIN projects THEN projects[project_id].name
        ELSE FallbackProjectName

\* the aggregates of report r are those of the set S of payments
AggregatesOf(r, S) ==
    /\ r.records = Cardinality(S)
    /\ r.total_payments = SumIds(S, "amount")
    /\ r.total_commissions = SumIds(S, "company_commission")
    /\ r.total_vat = SumIds(S, "vat_on_commission")
    /\ r.net_to_owners = SumIds(S, "net_to_owner")
    /\ r.owners.count = Cardinality({i \in S : payments[i].payer_type = "owner"})
    /\ r.tenants.count = Cardinality({i \in S : payments[i].payer_type = "tenant"})
    /\ \A k \in 1..Len(r.project_stats) :
           LET of == {i \in S : /\ payments[i].unit_id \in DOMAIN units
                                /\ ProjectNameOf(i) = r.project_stats[k].key}
           IN  /\ r.project_stats[k].count = Cardinality(of)
               /\ r.project_stats[k].total = SumIds(of, "amount")
    /\ \A k \in 1..Len(r.monthly_stats) :
           LET of == {i \in S : MonthKey(payments[i].date) = r.monthly_stats[k].key}
           IN  /\ r.monthly_stats[k].count = Cardinality(of)
               /\ r.monthly_stats[k].total = SumIds(of, "amount")
    /\ SumSeq(Field(r.monthly_stats, "count")) = Cardinality(S)
    /\ \A k \in 1..Len(r.quarterly_stats) :
           LET of == {i \in S : QuarterKey(payments[i].date) = r.quarterly_stats[k].key}
           IN  /\ r.quarterly_stats[k].count = Cardinality(of)
               /\ r.quarterly_stats[k].total = SumIds(of, "amount")
    /\ SumSeq(Field(r.quarterly_stats, "count")) = Cardinality(S)
    /\ \A k \in 1..Len(r.top_payments) : r.top_payments[k].id \in S
    /\ r.trend_analysis = TrendAnalysis(r.monthly_stats)

\* C16: with the payer_type argument owner (or tenant), the summary totals,
\* the payer split, the project, monthly and quarterly groups, the trend and
\* the top list are computed from the payments of exactly that payer type and
\* from no other; of one tenant and one owner payment, the owner filter leaves
\* the owner payment alone.
C16_PayerTypeFilter ==
    \A t \in {"owner", "tenant"} :
        (IsReport /\ response.args.payer_type = Some(t)) =>
            /\ Reported = OfPayerType(t)
            /\ AggregatesOf(Report, OfPayerType(t))
            /\ Report.owners.count = (IF t = "owner" THEN Report.records ELSE 0)
            /\ Report.tenants.count = (IF t = "tenant" THEN Report.records ELSE 0)
            /\ \A k \in 1..Len(Report.top_payments) :
                   Report.top_payments[k].payer_type = t
            /\ \A k \in 1..Len(Report.monthly_stats) :
                   /\ t = "owner" => Report.monthly_stats[k].tenants = 0
                   /\ t = "tenant" => Report.monthly_stats[k].owners = 0

\* the report with the owner filter over one tenant and one owner payment
C16_Witness ==
    /\ IsReport
    /\ response.args = [NoFilters EXCEPT !.payer_type = Some("owner")]
    /\ Cardinality(PaymentIds) = 2
    /\ \E i, j \in PaymentIds :
           /\ payments[i].payer_type = "owner" /\ payments[j].payer_type = "tenant"
           /\ Report.top_payments = <<Fetched(i)>>
    /\ Report.records = 1

\* the payments of a unit of project p that the other arguments select
OfProject(p) ==
    {i \in PaymentIds :
        /\ \E u \in DOMAIN units : payments[i].unit_id = u /\ units[u].project_id = p
        /\ Matches(i, [response.args EXCEPT !.project_id = None])}

\* C17: with the project_id argument, the report is over exactly the payments
\* whose unit belongs to that project: none of a unit of another project is
\* included and none of a unit of that project is left out.
C17_ProjectFilter ==
    (IsReport /\ response.args.project_id # None) =>
        /\ Reported = OfProject(response.args.project_id[1])
        /\ Report.records = Cardinality(OfProject(response.args.project_id[1]))
        /\ Report.total_payments = SumIds(OfProject(response.args.project_id[1]), "amount")

\* a report with the project filter that includes payments, and leaves out a
\* payment of another project's unit and a payment of a unit that does not exist
C17_Witness ==
    /\ IsReport
    /\ response.args.project_id # None
    /\ Report.records >= 2
    /\ \E i \in PaymentIds \ Reported : payments[i].unit_id \notin DOMAIN units
    /\ \E i \in PaymentIds \ Reported : payments[i].unit_id \in DOMAIN units

----------------------------------------------------------------------------
(* Properties of the text of the report                                    *)

NoteSet(r) == {r.recommendations[k] : k \in 1..Len(r.recommendations)}

\* C18 as stated: a commission note is emitted exactly when the commission
\* percentage is > 10 or < 3, a diversification note exactly when the number of
\* project groups is > 5 or <= 2, a growth or decline note exactly when there
\* is a trend and its growth rate is > 10 or < -5.
C18_RecommendationThresholds ==
    IsReport =>
        LET x == Report.commission_percentage
            groups == Len(Report.project_stats)
            notes == NoteSet(Report)
            trend == Report.trend_analysis # <<>>
        IN  /\ "commission_high" \in notes <=> x.num > 10 * x.den
            /\ "commission_low" \in notes <=> x.num < 3 * x.den
            /\ "projects_diverse" \in notes <=> groups > 5
            /\ "projects_concentrated" \in notes <=> groups <= 2
            /\ "growth" \in notes <=>
                   (trend /\ (CurrentTotal - PreviousTotal) * 10 > PreviousTotal)
            /\ "decline" \in notes <=>
                   (trend /\ (CurrentTotal - PreviousTotal) * 20 < - PreviousTotal)

\* the fixed order of the sections
SectionOrder ==
    <<"header", "filters", "summary", "payer_types", "projects", "monthly",
      "quarterly", "kpis", "top", "recommendations", "footer">>

PlaceOf(section) == CHOOSE k \in 1..Len(SectionOrder) : SectionOrder[k] = section

\* C19: the sections of a report are in the order header, applied filters,
\* executive summary, payer-type breakdown, per-project breakdown, monthly
\* table, quarterly breakdown, KPIs, top transactions, recommendations,
\* footer: those present are in this relative order, each once, and header,
\* summary, payer-type breakdown, KPIs, recommendations and footer are always
\* present.
C19_SectionOrder ==
    IsReport =>
        LET sections == Report.sections
        IN  /\ \A k \in 1..Len(sections) :
                   \E j \in 1..Len(SectionOrder) : SectionOrder[j] = sections[k]
            /\ \A a, b \in 1..Len(sections) :
                   a < b => PlaceOf(sections[a]) < PlaceOf(sections[b])
            /\ {"header", "summary", "payer_types", "kpis", "recommendations", "footer"}
                   \subseteq SectionSet(Report)

\* a report with every one of the eleven sections
C19_Witness ==
    /\ IsReport
    /\ Report.sections = SectionOrder

----------------------------------------------------------------------------
(* Frame of the report handlers                                            *)

\* the step is the handling of a request by reports_view or by an export
ReportStep == response'.kind \in {"report", "file"}

\* C20: generating a report (reports_view, which calls
\* generate_comprehensive_report, and the CSV, Excel and text exports) leaves
\* every stored payment, unit, project, owner and tenant as it is and adds no
\* audit-log row.
C20_ReportsAreReadOnly ==
    [][ReportStep =>
           /\ payments' = payments /\ units' = units /\ projects' = projects
           /\ owners' = owners /\ tenants' = tenants
           /\ audit_logs' = audit_logs /\ audit_logs' = <<>>]_vars

\* the CSV export of several payments has been answered, one of them of a unit
\* moved to another project, and no audit-log row was added
C20_Witness ==
    /\ response.kind = "file"
    /\ response.op = "export_payments_csv"
    /\ Len(response.rows) >= 2
    /\ \E u \in DOMAIN units : units[u].project_id \notin DOMAIN projects
    /\ audit_logs = <<>>

----------------------------------------------------------------------------
(* Determinism of the report                                               *)

EntrySet(d) == {d[k] : k \in 1..Len(d)}

\* the reports r and q agree on everything but the order in which payments of
\* one amount are listed and in which the project groups were first met
SameAggregates(r, q) ==
    /\ r.records = q.records
    /\ r.total_payments = q.total_payments
    /\ r.total_commissions = q.total_commissions
    /\ r.total_vat = q.total_vat /\ r.net_to_owners = q.net_to_owners
    /\ r.avg_payment = q.avg_payment /\ r.avg_commission = q.avg_commission
    /\ r.commission_percentage = q.commission_percentage
    /\ r.owners = q.owners /\ r.tenants = q.tenants
    /\ EntrySet(r.project_stats) = EntrySet(q.project_stats)
    /\ r.monthly_stats = q.monthly_stats /\ r.monthly_lines = q.monthly_lines
    /\ r.quarterly_stats = q.quarterly_stats
    /\ r.quarterly_lines = q.quarterly_lines
    /\ r.trend_analysis = q.trend_analysis
    /\ Field(r.top_payments, "amount") = Field(q.top_payments, "amount")
    /\ r.recommendations = q.recommendations
    /\ r.sections = q.sections

\* every report the answered request can have produced from the stored rows
PossibleReports ==
    {generate_comprehensive_report(ps, response.args) : ps \in Query(response.args)}

\* C21 as stated: two report generations over the same stored payments and
\* the same filters give identical totals, payer split, project, monthly and
\* quarterly statistics, trend, top transactions and recommendations.
C21_ReportsIdentical ==
    IsReport =>
        \A q \in PossibleReports :
            /\ SameAggregates(Report, q)
            /\ Report.top_payments = q.top_payments

\* C21: the report keeps no state between calls and is determined by the rows
\* the query returned and the filters: whatever was generated before, the
\* totals, payer split, project, monthly and quarterly statistics, trend and
\* recommendations are those of the stored payments the filters select, and
\* the top list is that of the rows in the order the query returned them; two
\* generations differ at most in the order of payments of one date.
C21_ReportDeterminedByRows ==
    IsReport =>
        /\ AggregatesOf(Report, FilteredIds)
        /\ Reported = FilteredIds
        /\ \A a, b \in 1..Len(Report.payments) :
               (a < b) => DateKey(payments[Report.payments[a]].date)
                              >= DateKey(payments[Report.payments[b]].date)
        /\ Report.top_payments =
               TopPayments([k \in 1..Len(Report.payments) |-> Fetched(Report.payments[k])])
        /\ \A q \in PossibleReports :
               /\ SameAggregates(Report, q)
               /\ q.payments = Report.payments => q = Report

\* a report that is one of several possible ones, over payments of one date
\* and one amount, generated after a report with other filters
C21_Witness ==
    /\ IsReport
    /\ Cardinality(PossibleReports) > 1
    /\ \E q \in PossibleReports : q.top_payments # Report.top_payments
    /\ response.args # NoFilters

----------------------------------------------------------------------------
(* The reports page                                                        *)

\* C22 as stated: the totals reports_view computes for the page and the
\* totals inside the text report of the same response are computed from the
\* same payments, also when other requests create, edit or delete payments
\* while the page is produced.
C22_PageAndTextAgree ==
    (IsReport /\ response.op = "reports_view") =>
        /\ response.payments = Reported
        /\ response.total_payments = Report.total_payments
        /\ response.total_commissions = Report.total_commissions
        /\ response.total_vat = Report.total_vat
        /\ response.net_to_owners = Report.net_to_owners

----------------------------------------------------------------------------
(* Invariants of the stored rows                                           *)

\* the stored breakdown of row p is the calculator's for its amount and rates
StoredAsCalculated(p) ==
    Computed(p) =
        Computed(calculate_payment_breakdown(p.amount, p.company_rate, p.vat_rate))

\* C23: after any sequence of payment creations, edits and deletions, the
\* stored commission, VAT and net of every payment are those that
\* calculate_payment_breakdown gives for its stored amount and rates; the
\* seeded payments are stored in the same way.
C23_StoredBreakdownIsCalculated ==
    /\ \A i \in PaymentIds : StoredAsCalculated(payments[i])
    /\ \A i \in 1..SeedCount : StoredAsCalculated(SeedPayment(i))

\* two stored payments, one of them just edited to another amount and a rate
\* that is not the default
C23_Witness ==
    /\ Cardinality(PaymentIds) = 2
    /\ \E i \in PaymentIds :
           /\ audit_logs = <<AuditLog("edit_payment", i)>>
           /\ payments[i].company_rate # DefaultCompanyRate
           /\ payments[i].company_commission > 0
    /\ \E i \in PaymentIds : payments[i].amount < 0

----------------------------------------------------------------------------
(* Validation of the payer                                                 *)

\* the request answered by this step has created a payment
PaymentCreated ==
    /\ audit_logs' # <<>>
    /\ audit_logs'[1].action = "create_payment"

\* the request answered by this step has edited a payment
PaymentEdited ==
    /\ audit_logs' # <<>>
    /\ audit_logs'[1].action = "edit_payment"

\* a payments_view or edit_payment request has been rejected
PaymentRejected ==
    /\ response'.kind = "redirect"
    /\ response'.to \in {"payments_view", "edit_payment"}
    /\ response'.flash = "error"

\* the payer of row p is an owner or a tenant that is stored now
PayerStored(p) ==
    /\ p.payer_type = "owner" => p.payer_id # None /\ p.payer_id[1] \in owners
    /\ p.payer_type = "tenant" => p.payer_id # None /\ p.payer_id[1] \in DOMAIN tenants

\* C24: a payment is created or edited with payer_type owner (tenant) only
\* when its payer_id is the id of an owner (tenant) stored at that moment; a
\* rejected request leaves the stored payments unchanged and adds nothing to
\* the audit log.
C24_PayerMustExist ==
    [][/\ PaymentCreated => PayerStored(payments'[NewPaymentId])
       /\ PaymentEdited => PayerStored(payments'[audit_logs'[1].id])
       /\ PaymentRejected => payments' = payments /\ audit_logs' = <<>>]_vars

\* an edit has just been rejected for a payer that was deleted after the
\* payment naming it was stored
C24_Witness ==
    /\ response = Redirect("edit_payment", "error")
    /\ audit_logs = <<>>
    /\ \E i \in PaymentIds : ~ PayerStored(payments[i])

----------------------------------------------------------------------------
(* One tenant for each owner                                               *)

\* a tenants_view or edit_tenant request has been rejected
TenantRejected ==
    /\ response'.kind = "redirect"
    /\ response'.to \in {"tenants_view", "edit_tenant"}
    /\ response'.flash = "error"

\* C28: after any sequence of add-tenant, edit-tenant and delete-tenant
\* requests every owner has at most one tenant, and a rejected add or move
\* leaves the tenants unchanged.
C28_OneTenantPerOwner ==
    /\ [](\A t, u \in DOMAIN tenants :
             tenants[t].owner_id = tenants[u].owner_id => t = u)
    /\ [][TenantRejected => tenants' = tenants]_vars

\* both owners have a tenant and the move of one tenant to the other owner
\* has just been rejected
C28_Witness ==
    /\ response = Redirect("edit_tenant", "error")
    /\ \A o \in owners : Cardinality(TenantsOf(o)) = 1
    /\ Cardinality(owners) = 2

----------------------------------------------------------------------------
(* Delete guards                                                           *)

\* delete_owner, delete_project or delete_unit has refused (an add_unit that
\* is rejected gives the same redirect, and changes as little)
DeleteRefused ==
    \/ response' = Json(FALSE, 400)
    \/ response' = Redirect("projects_view", "error")

\* C29: delete_owner refuses an owner that has tenants, delete_project a
\* project that has units and delete_unit a unit that has payments; a refused
\* delete leaves every stored row unchanged and adds nothing to the audit
\* log; so no step removes an owner a tenant refers to, a project a unit
\* refers to, or a unit a payment refers to.
C29_DeleteGuards ==
    [][/\ DeleteRefused =>
              /\ UNCHANGED <<payments, units, projects, owners, tenants>>
              /\ audit_logs' = <<>>
       /\ \A o \in owners \ owners' :
              /\ TenantsOf(o) = {}
              /\ \A t \in DOMAIN tenants' : tenants'[t].owner_id # o
       /\ \A q \in DOMAIN projects \ DOMAIN projects' :
              /\ \A u \in DOMAIN units : units[u].project_id # q
              /\ \A u \in DOMAIN units' : units'[u].project_id # q
       /\ \A u \in DOMAIN units \ DOMAIN units' :
              /\ \A i \in PaymentIds : payments[i].unit_id # u
              /\ \A i \in DOMAIN payments' : payments'[i].unit_id # u]_vars

\* delete_owner has just refused, while a stored payment is for a stored unit
\* and every stored project has a unit
C29_Witness ==
    /\ response = Json(FALSE, 400)
    /\ audit_logs = <<>>
    /\ tenants # <<>>
    /\ \E i \in PaymentIds : payments[i].unit_id \in DOMAIN units
    /\ \A q \in DOMAIN projects : \E u \in DOMAIN units : units[u].project_id = q

----------------------------------------------------------------------------
(* Unit numbers of a project                                               *)

\* a request that would store a second unit with an existing pair of
\* project_id and unit_number has been rejected
UnitRejected == response' = Redirect("projects_view", "error")

\* C30: after any sequence of add_unit, edit_unit and delete_unit requests no
\* two units of the same project have the same unit_number, and a rejected
\* request leaves the units unchanged.
C30_UnitNumbersUnique ==
    /\ [](\A u, v \in DOMAIN units :
             /\ units[u].project_id = units[v].project_id
             /\ units[u].unit_number = units[v].unit_number
             => u = v)
    /\ [][UnitRejected => units' = units]_vars

----------------------------------------------------------------------------
(* Account lockout                                                         *)

\* the step answers a request (time stands still while it does)
RequestStep(op) == request'.op = op /\ clock' = clock

\* the account is locked now
Locked(u) == users[u].locked_until # None /\ clock < users[u].locked_until[1]

\* the step answers a login request that names user u
LoginAs(u) ==
    /\ RequestStep("login")
    /\ sanitize_input(request'.username) = users[u].username

\* the step answers a login of user u with a wrong password
LoginFailed(u) ==
    RequestStep("login") /\ audit_logs' = <<UserAuditLog("login_failed", u)>>

\* the step logs user u in
LoginSucceeded(u) ==
    RequestStep("login") /\ audit_logs' = <<UserAuditLog("login_success", u)>>

\* C25: every failed password attempt adds one to login_attempts and a
\* successful login sets it to 0, nothing else changes it; the attempt that
\* makes it 5 or more locks the account until 30 minutes later; while the
\* account is locked every login attempt, also one with the correct password,
\* is rejected and changes neither login_attempts nor locked_until; a
\* successful login happens only when the account is not locked, and clears
\* locked_until.
C25_AccountLockout ==
    [][\A u \in DOMAIN users :
          /\ LoginFailed(u) =>
                /\ users'[u].login_attempts = users[u].login_attempts + 1
                /\ users'[u].locked_until =
                       IF users'[u].login_attempts >= 5
                       THEN Some(clock + 30) ELSE users[u].locked_until
          /\ LoginSucceeded(u) =>
                /\ ~ Locked(u)
                /\ users'[u].login_attempts = 0
                /\ users'[u].locked_until = None
          /\ Locked(u) /\ LoginAs(u) =>
                /\ response'.kind = "page" /\ response'.template = "login"
                /\ session' = session
                /\ users' = users
          /\ \/ users'[u].login_attempts # users[u].login_attempts
             \/ users'[u].locked_until # users[u].locked_until
             => LoginFailed(u) \/ LoginSucceeded(u)]_vars

\* after five failed attempts a login with the correct password has just been
\* rejected because the account is locked
C25_Witness ==
    /\ request.op = "login"
    /\ response = Page("login", "locked")
    /\ \E u \in DOMAIN users :
           /\ sanitize_input(request.username) = users[u].username
           /\ check_password(users[u], request.password)
           /\ users[u].login_attempts = 5
           /\ Locked(u)

----------------------------------------------------------------------------
(* Session timeout                                                         *)

\* the step answers some request
AnyRequestStep == clock' = clock /\ request'.op # "none"

\* the step has answered with the logout of the expired session
ExpiredAnswer ==
    /\ response' = Redirect("login", "session_expired")
    /\ session'.user_id = None
    /\ UNCHANGED <<users, stored>>
    /\ audit_logs' = <<>>

SessionTimeoutWithLastActivity ==
    [][AnyRequestStep /\ session.user_id # None /\ session.last_activity # None =>
          IF clock - session.last_activity[1] > 120
          THEN ExpiredAnswer
          ELSE session'.last_activity = Some(clock)]_vars

----------------------------------------------------------------------------
(* Password reset                                                          *)

\* the token is that of a user and has not expired
ValidToken(token) ==
    \E u \in DOMAIN users :
        /\ users[u].password_reset_token = Some(token)
        /\ \/ users[u].password_reset_expires = None
           \/ clock <= users[u].password_reset_expires[1]

\* the step resets the password of user u
ResetDone(u) ==
    RequestStep("reset_password") /\ audit_logs' = <<UserAuditLog("reset_password", u)>>

\* C27: a token is given an expiry of one hour after it is made; a reset
\* request with a token that no user has or that has expired leaves the users
\* unchanged and is answered with the redirect that says so; a password
\* changes only by a reset with a valid token, and that reset clears the
\* token, so that no user has it afterwards.
C27_ResetToken ==
    [][/\ response'.kind = "page" /\ response'.flash = "token_sent"
          /\ RequestStep("forgot_password") =>
              \E u \in DOMAIN users :
                  /\ users'[u].password_reset_token = Some(response'.token)
                  /\ users'[u].password_reset_expires = Some(clock + 60)
       /\ RequestStep("reset_password") /\ ~ ValidToken(request'.token) =>
              /\ users' = users
              /\ session.user_id = None =>
                     response' = Redirect("login", "invalid_token")
       /\ \A u \in DOMAIN users :
              /\ users'[u].password_hash # users[u].password_hash => ResetDone(u)
              /\ ResetDone(u) =>
                     /\ ValidToken(request'.token)
                     /\ users[u].password_reset_token = Some(request'.token)
                     /\ \A v \in DOMAIN users :
                            users'[v].password_reset_token # Some(request'.token)]_vars

\* a reset with the token of the user has just been rejected because the
\* token had expired, and the password is the seeded one
C27_Witness ==
    /\ request.op = "reset_password" /\ request.method = "POST"
    /\ response = Redirect("login", "invalid_token")
    /\ \E u \in DOMAIN users :
           /\ users[u].password_reset_token = Some(request.token)
           /\ clock > users[u].password_reset_expires[1]
           /\ check_password(users[u], SeedPassword)

====
